---- MODULE Spec2Model ----
(***************************************************************************)
(* claude-hud-enhanced: the usage cache and fetcher (dist/usage-api.js).   *)
(*                                                                         *)
(* JavaScript values are records [t, v, s]: t is the type tag, v the       *)
(* numeric payload and s the string payload (a sequence of text pieces,    *)
(* one character per piece where the code inspects characters).            *)
(* Finite numbers that the code rounds are kept in tenths (v = 495 is      *)
(* 49.5); times are integers in milliseconds.                              *)
(***************************************************************************)
EXTENDS Integers, Sequences, FiniteSets, TLC

\* ------------------------------------------------------------ JS values
Undef == [t |-> "undefined", v |-> 0, s |-> <<>>]
Null == [t |-> "null", v |-> 0, s |-> <<>>]
NaN == [t |-> "NaN", v |-> 0, s |-> <<>>]
PosInf == [t |-> "Infinity", v |-> 1, s |-> <<>>]
NegInf == [t |-> "Infinity", v |-> -1, s |-> <<>>]
Num(tenths) == [t |-> "number", v |-> tenths, s |-> <<>>]
Whole(n) == [t |-> "number", v |-> 10 * n, s |-> <<>>]
Str(chars) == [t |-> "string", v |-> 0, s |-> chars]
DateOf(ms) == [t |-> "Date", v |-> ms, s |-> <<>>]
IsoOf(ms) == [t |-> "string", v |-> ms, s |-> <<"ISO">>]
Bool(b) == [t |-> "boolean", v |-> IF b THEN 1 ELSE 0, s |-> <<>>]

\* value == null (loose): undefined or null
IsNullish(x) == x.t \in {"undefined", "null"}
\* !value
IsFalsy(x) ==
    \/ IsNullish(x)
    \/ x.t = "NaN"
    \/ x.t = "number" /\ x.v = 0
    \/ x.t = "string" /\ x.s = <<>>
    \/ x.t = "boolean" /\ x.v = 0
\* a ?? b
Coalesce(a, b) == IF IsNullish(a) THEN b ELSE a

\* optional objects: <<>> is undefined, <<o>> is the object o
None == <<>>
Some(o) == <<o>>
CoalesceOpt(a, b) == IF a = None THEN b ELSE a

\* ------------------------------------------------------------ strings
Uppers == <<"A", "B", "C", "D", "E", "F", "G", "H", "I", "J", "K", "L", "M",
            "N", "O", "P", "Q", "R", "S", "T", "U", "V", "W", "X", "Y", "Z">>
Lowers == <<"a", "b", "c", "d", "e", "f", "g", "h", "i", "j", "k", "l", "m",
            "n", "o", "p", "q", "r", "s", "t", "u", "v", "w", "x", "y", "z">>
LowerChar(c) ==
    IF \E i \in 1..Len(Uppers) : Uppers[i] = c
    THEN Lowers[CHOOSE i \in 1..Len(Uppers) : Uppers[i] = c]
    ELSE c
UpperChar(c) ==
    IF \E i \in 1..Len(Lowers) : Lowers[i] = c
    THEN Uppers[CHOOSE i \in 1..Len(Lowers) : Lowers[i] = c]
    ELSE c
toLowerCase(chars) == [i \in 1..Len(chars) |-> LowerChar(chars[i])]
includes(chars, sub) ==
    \E i \in 0..(Len(chars) - Len(sub)) : SubSeq(chars, i + 1, i + Len(sub)) = sub

\* ------------------------------------------------------------ constants
CACHE_TTL_MS == 60000
CACHE_FAILURE_TTL_MS == 15000

\* ------------------------------------------------------------ parsing
Min(a, b) == IF a < b THEN a ELSE b
Max(a, b) == IF a > b THEN a ELSE b
\* Math.round on tenths: the nearest integer, halves upwards
MathRound(tenths) == ((tenths + 5) \div 10) * 10

parseUtilizationNoClamp(value) ==
    IF IsNullish(value) THEN Null
    ELSE IF value.t # "number" THEN Null
    ELSE Num(MathRound(value.v))
parseUtilization(value) ==
    IF IsNullish(value) THEN Null
    ELSE IF value.t # "number" THEN Null
    ELSE Num(MathRound(Max(0, Min(1000, value.v))))

\* an ISO date string is IsoOf(ms); any other non-empty string is no date
parseDate(dateStr) ==
    IF IsFalsy(dateStr) THEN Null
    ELSE IF dateStr.t = "string" /\ dateStr.s = <<"ISO">> THEN DateOf(dateStr.v)
    ELSE Null

parseModelQuotas(quotas) ==
    IF quotas = None THEN <<>>
    ELSE [i \in 1..Len(quotas[1]) |->
            LET q == quotas[1][i] IN
            [modelId |-> Coalesce(q.model_id, Str(<<"unknown">>)),
             displayName |-> Coalesce(q.display_name,
                                Coalesce(q.model_id, Str(<<"Unknown Model">>))),
             utilization |-> parseUtilization(q.utilization),
             resetsAt |-> parseDate(q.resets_at)]]

\* parseMaxPlanInfo throws (TypeError) when a truthy argument is no string
MaxPlanThrows(maxPlanType, rateLimitTier) ==
    \/ ~IsFalsy(maxPlanType) /\ maxPlanType.t # "string"
    \/ LET lower == toLowerCase(maxPlanType.s)
           tier1 == /\ ~IsFalsy(maxPlanType)
                    /\ maxPlanType.t = "string"
                    /\ \/ includes(lower, <<"m", "a", "x", "2", "0">>)
                       \/ lower = <<"2", "0">>
                       \/ includes(lower, <<"m", "a", "x", "5">>)
                       \/ lower = <<"5">>
       IN ~tier1 /\ ~IsFalsy(rateLimitTier) /\ rateLimitTier.t # "string"

parseMaxPlanInfo(maxPlanType, tokensPerWindow, rateLimitTier) ==
    LET lower == toLowerCase(maxPlanType.s)
        is20 == includes(lower, <<"m", "a", "x", "2", "0">>) \/ lower = <<"2", "0">>
        is5 == includes(lower, <<"m", "a", "x", "5">>) \/ lower = <<"5">>
        tier1 == IF IsFalsy(maxPlanType) THEN Null
                 ELSE IF is20 THEN Str(<<"Max20">>)
                 ELSE IF is5 THEN Str(<<"Max5">>)
                 ELSE Null
        tokens1 == IF IsFalsy(maxPlanType) THEN Null
                   ELSE IF is20 THEN Coalesce(tokensPerWindow, Whole(220000))
                   ELSE IF is5 THEN Coalesce(tokensPerWindow, Whole(88000))
                   ELSE Null
        rl == toLowerCase(rateLimitTier.s)
        rl20 == \/ includes(rl, <<"m", "a", "x", "2", "0">>)
                \/ includes(rl, <<"t", "i", "e", "r", "_", "2", "0">>)
        rl5 == \/ includes(rl, <<"m", "a", "x", "5">>)
               \/ includes(rl, <<"t", "i", "e", "r", "_", "5">>)
        fallback == tier1 = Null /\ ~IsFalsy(rateLimitTier)
        tier == IF fallback /\ rl20 THEN Str(<<"Max20">>)
                ELSE IF fallback /\ rl5 THEN Str(<<"Max5">>)
                ELSE tier1
        tokens == IF fallback /\ rl20 THEN Whole(220000)
                  ELSE IF fallback /\ rl5 THEN Whole(88000)
                  ELSE tokens1
    IN [tier |-> tier, tokensPerWindow |-> tokens, isActive |-> Bool(tier # Null)]

parseCompactionInfo(bufferPercent) ==
    IF IsNullish(bufferPercent) \/ bufferPercent.t # "number"
    THEN [bufferPercent |-> Whole(80), isEnabled |-> Bool(FALSE)]
    ELSE [bufferPercent |-> Num(MathRound(Max(500, Min(1000, bufferPercent.v)))),
          isEnabled |-> Bool(TRUE)]

\* formatTimeToReset: the countdown text, as its pieces
formatTimeToReset(resetAt, now) ==
    LET diffMs == resetAt.v - now
        totalMins == (diffMs + 59999) \div 60000
        hours == totalMins \div 60
        mins == totalMins % 60
        days == hours \div 24
        remainingHours == hours % 24
    IN IF diffMs <= 0 THEN Str(<<"now">>)
       ELSE IF totalMins < 60 THEN Str(<<ToString(totalMins), "m">>)
       ELSE IF hours < 24
            THEN IF mins > 0 THEN Str(<<ToString(hours), "h ", ToString(mins), "m">>)
                 ELSE Str(<<ToString(hours), "h">>)
       ELSE IF remainingHours > 0
            THEN Str(<<ToString(days), "d ", ToString(remainingHours), "h">>)
            ELSE Str(<<ToString(days), "d">>)

\* ------------------------------------------------------------ plan name
getPlanNameExactCase(subscriptionType, hasOAuthToken) ==
    IF includes(subscriptionType, <<"m", "a", "x">>) THEN Str(<<"M", "a", "x">>)
    ELSE IF includes(subscriptionType, <<"p", "r", "o">>) THEN Str(<<"P", "r", "o">>)
    ELSE IF includes(subscriptionType, <<"t", "e", "a", "m">>)
    THEN Str(<<"T", "e", "a", "m">>)
    ELSE IF includes(subscriptionType, <<"a", "p", "i">>) THEN Null
    ELSE IF subscriptionType = <<>> /\ hasOAuthToken THEN Str(<<"P", "r", "o">>)
    ELSE IF subscriptionType = <<>> THEN Null
    ELSE Str(<<UpperChar(subscriptionType[1])>> \o Tail(subscriptionType))
getPlanName(subscriptionType, hasOAuthToken) ==
    LET lower == toLowerCase(subscriptionType) IN
    IF includes(lower, <<"m", "a", "x">>) THEN Str(<<"M", "a", "x">>)
    ELSE IF includes(lower, <<"p", "r", "o">>) THEN Str(<<"P", "r", "o">>)
    ELSE IF includes(lower, <<"t", "e", "a", "m">>) THEN Str(<<"T", "e", "a", "m">>)
    ELSE IF includes(lower, <<"a", "p", "i">>) THEN Null
    ELSE IF subscriptionType = <<>> /\ hasOAuthToken THEN Str(<<"P", "r", "o">>)
    ELSE IF subscriptionType = <<>> THEN Null
    ELSE Str(<<UpperChar(subscriptionType[1])>> \o Tail(subscriptionType))

\* ------------------------------------------------------------ merge
OrElse(a, b) == IF IsFalsy(a) THEN b ELSE a
mergeApiResponsesOr(primary, secondary) ==
    IF primary = None /\ secondary = None THEN None
    ELSE IF primary = None THEN secondary
    ELSE IF secondary = None THEN primary
    ELSE LET p == primary[1]
             q == secondary[1]
         IN Some([five_hour |-> CoalesceOpt(p.five_hour, q.five_hour),
                  seven_day |-> CoalesceOpt(p.seven_day, q.seven_day),
                  model_quotas |-> CoalesceOpt(p.model_quotas, q.model_quotas),
                  max_plan_type |-> OrElse(p.max_plan_type, q.max_plan_type),
                  compaction_buffer |-> OrElse(p.compaction_buffer, q.compaction_buffer),
                  tokens_per_window |-> OrElse(p.tokens_per_window, q.tokens_per_window)])
mergeApiResponses(primary, secondary) ==
    IF primary = None /\ secondary = None THEN None
    ELSE IF primary = None THEN secondary
    ELSE IF secondary = None THEN primary
    ELSE LET p == primary[1]
             q == secondary[1]
         IN Some([five_hour |-> CoalesceOpt(p.five_hour, q.five_hour),
                  seven_day |-> CoalesceOpt(p.seven_day, q.seven_day),
                  model_quotas |-> CoalesceOpt(p.model_quotas, q.model_quotas),
                  max_plan_type |-> Coalesce(p.max_plan_type, q.max_plan_type),
                  compaction_buffer |-> Coalesce(p.compaction_buffer, q.compaction_buffer),
                  tokens_per_window |-> Coalesce(p.tokens_per_window, q.tokens_per_window)])

\* ------------------------------------------------------------ usage data
Ms(n) == [t |-> "number", v |-> n, s |-> <<>>]

failureResultUnflagged(planName) ==
    [planName |-> planName, fiveHour |-> Null, sevenDay |-> Null,
     fiveHourResetAt |-> Null, sevenDayResetAt |-> Null,
     apiUnavailable |-> Undef,
     modelQuotas |-> None, maxPlanInfo |-> None, compactionInfo |-> None,
     organizationUuid |-> Undef, fiveHourResetIn |-> Undef, sevenDayResetIn |-> Undef]
failureResult(planName) ==
    [planName |-> planName, fiveHour |-> Null, sevenDay |-> Null,
     fiveHourResetAt |-> Null, sevenDayResetAt |-> Null,
     apiUnavailable |-> Bool(TRUE),
     modelQuotas |-> None, maxPlanInfo |-> None, compactionInfo |-> None,
     organizationUuid |-> Undef, fiveHourResetIn |-> Undef, sevenDayResetIn |-> Undef]

\* getUsage, the parse stage: the result built from the merged response
BuildResult(m, planName, organizationUuid, rateLimitTier, now) ==
    LET fiveHour == IF m.five_hour = None THEN Null
                    ELSE parseUtilization(m.five_hour[1].utilization)
        sevenDay == IF m.seven_day = None THEN Null
                    ELSE parseUtilization(m.seven_day[1].utilization)
        fiveHourResetAt == IF m.five_hour = None THEN Null
                           ELSE parseDate(m.five_hour[1].resets_at)
        sevenDayResetAt == IF m.seven_day = None THEN Null
                           ELSE parseDate(m.seven_day[1].resets_at)
        modelQuotas == parseModelQuotas(m.model_quotas)
        maxPlanInfo == parseMaxPlanInfo(m.max_plan_type, m.tokens_per_window, rateLimitTier)
        compactionInfo == parseCompactionInfo(m.compaction_buffer)
    IN [planName |-> planName, fiveHour |-> fiveHour, sevenDay |-> sevenDay,
        fiveHourResetAt |-> fiveHourResetAt, sevenDayResetAt |-> sevenDayResetAt,
        apiUnavailable |-> Undef,
        modelQuotas |-> IF Len(modelQuotas) > 0 THEN Some(modelQuotas) ELSE None,
        maxPlanInfo |-> IF ~IsFalsy(maxPlanInfo.tier) THEN Some(maxPlanInfo) ELSE None,
        compactionInfo |-> IF compactionInfo.isEnabled = Bool(TRUE)
                           THEN Some(compactionInfo) ELSE None,
        organizationUuid |-> organizationUuid,
        fiveHourResetIn |-> IF ~IsFalsy(fiveHourResetAt)
                            THEN formatTimeToReset(fiveHourResetAt, now) ELSE Undef,
        sevenDayResetIn |-> IF ~IsFalsy(sevenDayResetAt)
                            THEN formatTimeToReset(sevenDayResetAt, now) ELSE Undef]

\* ------------------------------------------------------------ cache file
\* JSON.stringify then JSON.parse of one value: a Date comes back as its ISO
\* string, NaN and Infinity as null
JsonValue(x) ==
    IF x.t = "Date" THEN IsoOf(x.v)
    ELSE IF x.t \in {"NaN", "Infinity"} THEN Null
    ELSE x
JsonQuota(q) ==
    [modelId |-> JsonValue(q.modelId), displayName |-> JsonValue(q.displayName),
     utilization |-> JsonValue(q.utilization), resetsAt |-> JsonValue(q.resetsAt)]
JsonData(d) ==
    [planName |-> JsonValue(d.planName),
     fiveHour |-> JsonValue(d.fiveHour), sevenDay |-> JsonValue(d.sevenDay),
     fiveHourResetAt |-> JsonValue(d.fiveHourResetAt),
     sevenDayResetAt |-> JsonValue(d.sevenDayResetAt),
     apiUnavailable |-> d.apiUnavailable,
     modelQuotas |-> IF d.modelQuotas = None THEN None
                     ELSE Some([i \in 1..Len(d.modelQuotas[1]) |->
                                    JsonQuota(d.modelQuotas[1][i])]),
     maxPlanInfo |-> d.maxPlanInfo, compactionInfo |-> d.compactionInfo,
     organizationUuid |-> d.organizationUuid,
     fiveHourResetIn |-> d.fiveHourResetIn, sevenDayResetIn |-> d.sevenDayResetIn]

\* new Date(x) for an ISO string or a Date
NewDate(x) == DateOf(x.v)

NoFile == [st |-> "absent", rec |-> None]
\* the file holds no complete JSON text: it is empty or cut short
PartialFile == [st |-> "partial", rec |-> None]
\* the file exists but fs.readFileSync throws (no permission, a directory)
UnreadableFile == [st |-> "unreadable", rec |-> None]
\* the file holds JSON text without a data object ("null", "{}", "[]"):
\* cache.data.apiUnavailable throws a TypeError
ShapelessFile == [st |-> "shapeless", rec |-> None]
FileOf(data, timestamp) ==
    [st |-> "ok", rec |-> Some([data |-> JsonData(data), timestamp |-> timestamp])]
\* the file holds a complete JSON text followed by the tail of a longer one:
\* JSON.parse throws
GarbledFile == [st |-> "garbled", rec |-> None]

ttlOfSuccessOnly(data) == CACHE_TTL_MS
ttlOf(data) ==
    IF ~IsFalsy(data.apiUnavailable) THEN CACHE_FAILURE_TTL_MS ELSE CACHE_TTL_MS

readCacheInclusive(f, now) ==
    IF f.st # "ok" THEN None
    ELSE LET cache == f.rec[1]
             data == cache.data
         IN IF now - cache.timestamp > ttlOf(data) THEN None
            ELSE Some([data EXCEPT
                    !.fiveHourResetAt = IF ~IsFalsy(@) THEN NewDate(@) ELSE @,
                    !.sevenDayResetAt = IF ~IsFalsy(@) THEN NewDate(@) ELSE @])
readCache(f, now) ==
    IF f.st = "absent" THEN None
    ELSE IF f.st # "ok" THEN None
    ELSE LET cache == f.rec[1]
             data == cache.data
         IN IF now - cache.timestamp >= ttlOf(data) THEN None
            ELSE Some([data EXCEPT
                    !.fiveHourResetAt = IF ~IsFalsy(@) THEN NewDate(@) ELSE @,
                    !.sevenDayResetAt = IF ~IsFalsy(@) THEN NewDate(@) ELSE @])

\* a cache hit handing back the record as stored
cachedResultStored(cached, now) == cached

\* getUsage on a cache hit: the countdowns are recomputed
cachedResult(cached, now) ==
    [cached EXCEPT
        !.fiveHourResetIn = IF ~IsFalsy(cached.fiveHourResetAt)
                            THEN formatTimeToReset(cached.fiveHourResetAt, now) ELSE @,
        !.sevenDayResetIn = IF ~IsFalsy(cached.sevenDayResetAt)
                            THEN formatTimeToReset(cached.sevenDayResetAt, now) ELSE @]

\* ------------------------------------------------------------ credentials
\* a credentials source: None (no file, unparsable file, no keychain entry)
\* or the parsed JSON object
CredData(token, sub, org, tier, exp) ==
    Some([accessToken |-> token, subscriptionType |-> sub, organizationUuid |-> org,
          rateLimitTier |-> tier, expiresAt |-> exp])

readCredentialsStrict(fileData, keychainData, now) ==
    LET data == IF fileData = None \/ IsFalsy(fileData[1].accessToken)
                THEN keychainData ELSE fileData
    IN IF data = None THEN None
       ELSE IF IsFalsy(data[1].accessToken) THEN None
       ELSE IF ~IsNullish(data[1].expiresAt) /\ data[1].expiresAt.v < now THEN None
       ELSE Some([accessToken |-> data[1].accessToken,
                  subscriptionType |-> Coalesce(data[1].subscriptionType, Str(<<>>)),
                  organizationUuid |-> data[1].organizationUuid,
                  rateLimitTier |-> data[1].rateLimitTier])
readCredentials(fileData, keychainData, now) ==
    LET data == IF fileData = None \/ IsFalsy(fileData[1].accessToken)
                THEN keychainData ELSE fileData
    IN IF data = None THEN None
       ELSE IF IsFalsy(data[1].accessToken) THEN None
       ELSE IF ~IsNullish(data[1].expiresAt) /\ data[1].expiresAt.v <= now THEN None
       ELSE Some([accessToken |-> data[1].accessToken,
                  subscriptionType |-> Coalesce(data[1].subscriptionType, Str(<<>>)),
                  organizationUuid |-> data[1].organizationUuid,
                  rateLimitTier |-> data[1].rateLimitTier])

\* ------------------------------------------------------------ transcript
\* A content block. An absent id or tool_use_id is 0, an absent name "".
Block(type, id, name, input, tool_use_id, is_error, text) ==
    [type |-> type, id |-> id, name |-> name, input |-> input,
     tool_use_id |-> tool_use_id, is_error |-> is_error, text |-> text]

\* block.input; todos is None or Some(array)
NoInput ==
    [present |-> FALSE, todos |-> None, subagent_type |-> Undef, model |-> Undef,
     description |-> Undef, file_path |-> Undef, path |-> Undef, pattern |-> Undef,
     command |-> Undef]
EmptyInput == [NoInput EXCEPT !.present = TRUE]

TodoItem(content, status) == [content |-> content, status |-> status]

\* message.content: missing, a string or an array of blocks
NoContent == [kind |-> "none", text |-> <<>>, blocks |-> <<>>]
StringContent(text) == [kind |-> "string", text |-> text, blocks |-> <<>>]
ArrayContent(blocks) == [kind |-> "array", text |-> <<>>, blocks |-> blocks]

\* A line of the file: blank, not JSON, the JSON text "null", or an entry.
\* An absent timestamp is 0.
BlankLine == [kind |-> "blank", type |-> "", timestamp |-> 0, content |-> NoContent]
GarbageLine == [kind |-> "garbage", type |-> "", timestamp |-> 0, content |-> NoContent]
NullLine == [kind |-> "null", type |-> "", timestamp |-> 0, content |-> NoContent]
EntryLine(type, timestamp, content) ==
    [kind |-> "entry", type |-> type, timestamp |-> timestamp, content |-> content]

\* Map: insertion order, set() of a known key keeps its place
MapIndex(m, id) ==
    IF \E i \in 1..Len(m) : m[i].id = id
    THEN CHOOSE i \in 1..Len(m) : m[i].id = id
    ELSE 0
MapHas(m, id) == MapIndex(m, id) # 0
MapSet(m, id, e) ==
    IF MapHas(m, id) THEN [m EXCEPT ![MapIndex(m, id)] = e] ELSE Append(m, e)

\* Array.prototype.slice(-n)
SliceFirst(seq, n) == IF Len(seq) <= n THEN seq ELSE SubSeq(seq, 1, n)
SliceLast(seq, n) ==
    IF Len(seq) <= n THEN seq ELSE SubSeq(seq, Len(seq) - n + 1, Len(seq))

Ellipsis == <<".", ".", ".">>
extractTarget(toolName, input) ==
    IF ~input.present THEN Undef
    ELSE IF toolName \in {"Read", "Write", "Edit"}
    THEN Coalesce(input.file_path, input.path)
    ELSE IF toolName \in {"Glob", "Grep"} THEN input.pattern
    ELSE IF toolName = "Bash"
    THEN LET cmd == input.command IN
         IF IsNullish(cmd) THEN Str(<<"undefined">>)
         ELSE Str(SliceFirst(cmd.s, 30) \o (IF Len(cmd.s) > 30 THEN Ellipsis ELSE <<>>))
    ELSE Undef

\* .replace(/\n/g, ' ').replace(/\s+/g, ' ').trim() on a text given as its
\* pieces: words, " " and "\n"
IsSpace(c) == c \in {" ", "\n", "\t"}
RECURSIVE Collapse(_)
Collapse(text) ==
    IF text = <<>> THEN <<>>
    ELSE IF IsSpace(Head(text))
    THEN IF Len(text) > 1 /\ IsSpace(text[2]) THEN Collapse(Tail(text))
         ELSE <<" ">> \o Collapse(Tail(text))
    ELSE <<Head(text)>> \o Collapse(Tail(text))
Trim(text) ==
    LET a == IF text # <<>> /\ IsSpace(Head(text)) THEN Tail(text) ELSE text
    IN IF a # <<>> /\ IsSpace(a[Len(a)]) THEN SubSeq(a, 1, Len(a) - 1) ELSE a
Normalize(text) == Trim(Collapse(text))

RECURSIVE JoinText(_)
JoinText(blocks) ==
    IF blocks = <<>> THEN <<>>
    ELSE LET b == Head(blocks)
             rest == JoinText(Tail(blocks))
         IN IF b.type = "text" /\ b.text # <<>>
            THEN IF \E i \in 1..Len(Tail(blocks)) :
                        Tail(blocks)[i].type = "text" /\ Tail(blocks)[i].text # <<>>
                 THEN b.text \o <<" ">> \o rest
                 ELSE b.text
            ELSE rest
extractUserText(content) ==
    IF content.kind = "string" THEN Normalize(content.text)
    ELSE IF content.kind = "array" THEN Normalize(JoinText(content.blocks))
    ELSE <<>>
isUnhelpfulMessageEmptyOnly(msg) == msg = <<>>
isUnhelpfulMessage(msg) ==
    \/ msg = <<>>
    \/ Head(msg) \in {"[Request interrupted", "[Request cancelled"}

\* the accumulators of one parseTranscript call
EmptyResult ==
    [tools |-> <<>>, agents |-> <<>>, todos |-> <<>>, sessionStart |-> Undef,
     lastUserMessage |-> Undef]
Acc(tm, am, td, um, res) ==
    [toolMap |-> tm, agentMap |-> am, latestTodos |-> td, userMessages |-> um,
     result |-> res]
EmptyAcc == Acc(<<>>, <<>>, <<>>, <<>>, EmptyResult)

\* latestTodos.length = 0; latestTodos.push(...input.todos)
appendTodos(latest, todos) == latest \o todos
replaceTodos(latest, todos) == todos

processBlockUnrouted(acc, block, timestamp) ==
    LET input == block.input
        toolEntry == [id |-> block.id, name |-> block.name,
                      target |-> extractTarget(block.name, input),
                      status |-> "running", startTime |-> timestamp, endTime |-> Undef]
        agentEntry == [id |-> block.id,
                       type |-> Coalesce(input.subagent_type, Str(<<"unknown">>)),
                       model |-> Coalesce(input.model, Undef),
                       description |-> Coalesce(input.description, Undef),
                       status |-> "running", startTime |-> timestamp, endTime |-> Undef]
        a0 == IF block.type = "tool_use" /\ block.id # 0 /\ block.name # ""
              THEN [acc EXCEPT !.toolMap = MapSet(@, block.id, toolEntry)]
              ELSE acc
        a1 == IF block.type = "tool_use" /\ block.id # 0 /\ block.name = "Task"
              THEN [a0 EXCEPT !.agentMap = MapSet(@, block.id, agentEntry)]
              ELSE IF /\ block.type = "tool_use" /\ block.id # 0
                      /\ block.name = "TodoWrite" /\ input.todos # None
              THEN [a0 EXCEPT !.latestTodos = replaceTodos(@, input.todos[1])]
              ELSE a0
        id == block.tool_use_id
        a2 == IF block.type = "tool_result" /\ id # 0 /\ MapHas(a1.toolMap, id)
              THEN [a1 EXCEPT !.toolMap[MapIndex(a1.toolMap, id)] =
                        [@ EXCEPT !.status = IF block.is_error THEN "error"
                                             ELSE "completed",
                                  !.endTime = timestamp]]
              ELSE a1
    IN IF block.type = "tool_result" /\ id # 0 /\ MapHas(a2.agentMap, id)
       THEN [a2 EXCEPT !.agentMap[MapIndex(a2.agentMap, id)] =
                 [@ EXCEPT !.status = "completed", !.endTime = timestamp]]
       ELSE a2

\* processEntry, one block
Finished(e, status, timestamp) == [e EXCEPT !.status = status, !.endTime = timestamp]
processBlock(acc, block, timestamp) ==
    LET input == block.input
        toolEntry == [id |-> block.id, name |-> block.name,
                      target |-> extractTarget(block.name, input),
                      status |-> "running", startTime |-> timestamp, endTime |-> Undef]
        agentEntry == [id |-> block.id,
                       type |-> Coalesce(input.subagent_type, Str(<<"unknown">>)),
                       model |-> Coalesce(input.model, Undef),
                       description |-> Coalesce(input.description, Undef),
                       status |-> "running", startTime |-> timestamp, endTime |-> Undef]
        a1 == IF block.type = "tool_use" /\ block.id # 0 /\ block.name # ""
              THEN IF block.name = "Task"
                   THEN [acc EXCEPT !.agentMap = MapSet(@, block.id, agentEntry)]
                   ELSE IF block.name = "TodoWrite"
                   THEN IF input.todos # None
                        THEN [acc EXCEPT !.latestTodos = replaceTodos(@, input.todos[1])]
                        ELSE acc
                   ELSE [acc EXCEPT !.toolMap = MapSet(@, block.id, toolEntry)]
              ELSE acc
        id == block.tool_use_id
        a2 == IF block.type = "tool_result" /\ id # 0 /\ MapHas(a1.toolMap, id)
              THEN [a1 EXCEPT !.toolMap[MapIndex(a1.toolMap, id)] =
                        Finished(@, IF block.is_error THEN "error" ELSE "completed",
                                 timestamp)]
              ELSE a1
    IN IF block.type = "tool_result" /\ id # 0 /\ MapHas(a2.agentMap, id)
       THEN [a2 EXCEPT !.agentMap[MapIndex(a2.agentMap, id)] =
                 Finished(@, "completed", timestamp)]
       ELSE a2

RECURSIVE processBlocks(_, _, _)
processBlocks(acc, blocks, timestamp) ==
    IF blocks = <<>> THEN acc
    ELSE processBlocks(processBlock(acc, Head(blocks), timestamp), Tail(blocks),
                       timestamp)

\* processEntry; wall is what new Date() reads for an entry without timestamp
processEntry(acc, entry, wall) ==
    LET timestamp == DateOf(IF entry.timestamp # 0 THEN entry.timestamp ELSE wall)
        a0 == IF IsFalsy(acc.result.sessionStart) /\ entry.timestamp # 0
              THEN [acc EXCEPT !.result.sessionStart = timestamp]
              ELSE acc
    IN IF entry.content.kind # "array" THEN a0
       ELSE processBlocks(a0, entry.content.blocks, timestamp)

\* the body of the for-await loop once JSON.parse has returned an entry
processParsed(acc, entry, wall) ==
    LET a == processEntry(acc, entry, wall)
        hasContent == \/ entry.content.kind = "array"
                      \/ entry.content.kind = "string" /\ entry.content.text # <<>>
        msgText == extractUserText(entry.content)
    IN IF entry.type = "user" /\ hasContent /\ ~isUnhelpfulMessage(msgText)
       THEN [a EXCEPT !.userMessages = Append(@, msgText)]
       ELSE a

\* the body of the for-await loop for one line: a blank line is passed
\* over; a line JSON.parse rejects, or whose JSON is null, throws inside the
\* inner try and is skipped
processLineAborting(acc, line, wall) ==
    IF line.kind = "blank" THEN acc
    ELSE IF line.kind \in {"garbage", "null"} THEN EmptyAcc
    ELSE processParsed(acc, line, wall)
processLine(acc, line, wall) ==
    IF line.kind = "blank" THEN acc
    ELSE IF line.kind \in {"garbage", "null"} THEN acc
    ELSE processParsed(acc, line, wall)

\* the for-await loop over the lines of a file
RECURSIVE parseLines(_, _, _)
parseLines(acc, ls, wall) ==
    IF ls = <<>> THEN acc
    ELSE parseLines(processLine(acc, Head(ls), wall), Tail(ls), wall)

\* parseTranscript after the loop: trim and return
snapshot(acc) ==
    [acc.result EXCEPT
        !.tools = SliceLast(acc.toolMap, 20),
        !.agents = SliceLast(acc.agentMap, 10),
        !.todos = acc.latestTodos,
        !.lastUserMessage =
            IF Len(acc.userMessages) > 0
            THEN Str(acc.userMessages[Len(acc.userMessages)]) ELSE @]

\* ------------------------------------------------------------ stdin
\* IEEE-754 double arithmetic, as far as getContextPercent needs it. A
\* positive double is its 53 mantissa bits, most significant first, and the
\* exponent of the first one: [m |-> <<1, ...>>, e |-> k] is the sum of
\* m[i] * 2^(k - i + 1).
RECURSIVE IntBits(_)
IntBits(n) == IF n = 0 THEN <<>> ELSE IntBits(n \div 2) \o <<n % 2>>
RECURSIVE BitsValue(_)
BitsValue(bits) ==
    IF bits = <<>> THEN 0
    ELSE 2 * BitsValue(SubSeq(bits, 1, Len(bits) - 1)) + bits[Len(bits)]
RECURSIVE Increment(_)
Increment(bits) ==
    IF bits = <<>> THEN <<>>
    ELSE IF bits[Len(bits)] = 0 THEN SubSeq(bits, 1, Len(bits) - 1) \o <<1>>
    ELSE Increment(SubSeq(bits, 1, Len(bits) - 1)) \o <<0>>

\* round to nearest, ties to even: bits are the exact leading bits (the
\* first one is 1), sticky tells whether anything non-zero follows them
RoundToDouble(bits, sticky, e) ==
    LET padded == bits \o [i \in 1..(55 - Min(55, Len(bits))) |-> 0]
        m == SubSeq(padded, 1, 53)
        guard == padded[54]
        rest == sticky \/ \E i \in 55..Len(padded) : padded[i] = 1
        up == guard = 1 /\ (rest \/ m[53] = 1)
    IN IF ~up THEN [m |-> m, e |-> e]
       ELSE IF \A i \in 1..53 : m[i] = 1
       THEN [m |-> <<1>> \o [i \in 1..52 |-> 0], e |-> e + 1]
       ELSE [m |-> Increment(m), e |-> e]

\* the binary expansion of r / s for 0 <= r < s: n bits, and what is left
RECURSIVE DivBits(_, _, _)
DivBits(r, s, n) ==
    IF n = 0 THEN <<>>
    ELSE IF 2 * r >= s THEN <<1>> \o DivBits(2 * r - s, s, n - 1)
    ELSE <<0>> \o DivBits(2 * r, s, n - 1)
RECURSIVE DivRem(_, _, _)
DivRem(r, s, n) ==
    IF n = 0 THEN r
    ELSE IF 2 * r >= s THEN DivRem(2 * r - s, s, n - 1)
    ELSE DivRem(2 * r, s, n - 1)
RECURSIVE LeadZeros(_, _)
LeadZeros(r, s) == IF 2 * r >= s THEN 0 ELSE 1 + LeadZeros(2 * r, s)
RECURSIVE Doubled(_, _)
Doubled(r, n) == IF n = 0 THEN r ELSE Doubled(2 * r, n - 1)

\* t / s in doubles, for integers t > 0 and s > 0
FloatDiv(t, s) ==
    IF t >= s
    THEN LET whole == IntBits(t \div s)
             n == 54 - Len(whole)
         IN RoundToDouble(whole \o DivBits(t % s, s, n), DivRem(t % s, s, n) # 0,
                          Len(whole) - 1)
    ELSE LET z == LeadZeros(t, s)
             r == Doubled(t, z)
         IN RoundToDouble(DivBits(r, s, 54), DivRem(r, s, 54) # 0, -(z + 1))

\* x * k in doubles for a small positive integer k: the exact product, bit
\* by bit from the last, then rounded
RECURSIVE MulBits(_, _, _, _)
MulBits(m, k, i, carry) ==
    IF i = 0 THEN IntBits(carry)
    ELSE IF (k * m[i] + carry) % 2 = 0
    THEN MulBits(m, k, i - 1, (k * m[i] + carry) \div 2) \o <<0>>
    ELSE MulBits(m, k, i - 1, (k * m[i] + carry) \div 2) \o <<1>>
FloatMul(x, k) ==
    LET p == MulBits(x.m, k, 53, 0)
    IN RoundToDouble(p, FALSE, x.e + Len(p) - 53)

\* Math.floor of a positive double below 2^31
MathFloor(x) == IF x.e < 0 THEN 0 ELSE BitsValue(SubSeq(x.m, 1, x.e + 1))

\* the payload on standard input; a missing object has only missing fields
NoUsage ==
    [present |-> FALSE, input_tokens |-> Undef, cache_creation_input_tokens |-> Undef,
     cache_read_input_tokens |-> Undef]
Usage(input, creation, read) ==
    [present |-> TRUE, input_tokens |-> input, cache_creation_input_tokens |-> creation,
     cache_read_input_tokens |-> read]
NoContextWindow ==
    [context_window_size |-> Undef, used_percentage |-> Undef, current_usage |-> NoUsage]
ContextWindow(size, usedPct, usage) ==
    [context_window_size |-> size, used_percentage |-> usedPct, current_usage |-> usage]
StdinData(id, display_name, cwd, context_window) ==
    [model |-> [id |-> id, display_name |-> display_name], cwd |-> cwd,
     context_window |-> context_window]

\* getTotalTokens, in tenths like every number
getTotalTokens(sd) ==
    LET usage == sd.context_window.current_usage
    IN Coalesce(usage.input_tokens, Whole(0)).v
       + Coalesce(usage.cache_creation_input_tokens, Whole(0)).v
       + Coalesce(usage.cache_read_input_tokens, Whole(0)).v

\* Math.floor((totalTokens / size) * 100) for totalTokens >= 0 and size > 0;
\* the quotient and the product are doubles
percentOfExact(totalTokens, size) == (100 * totalTokens) \div size
percentOf(totalTokens, size) ==
    IF totalTokens = 0 THEN 0
    ELSE MathFloor(FloatMul(FloatDiv(totalTokens, size), 100))

\* getContextPercent: a whole number
getContextPercentRaw(sd) ==
    LET usedPct == sd.context_window.used_percentage
        size == sd.context_window.context_window_size
    IN IF ~IsNullish(usedPct) THEN usedPct.v \div 10
       ELSE IF IsFalsy(size) \/ size.v <= 0 THEN 0
       ELSE Min(100, percentOf(getTotalTokens(sd), size.v))
getContextPercent(sd) ==
    LET usedPct == sd.context_window.used_percentage
        size == sd.context_window.context_window_size
    IN IF ~IsNullish(usedPct) THEN Min(100, usedPct.v \div 10)
       ELSE IF IsFalsy(size) \/ size.v <= 0 THEN 0
       ELSE Min(100, percentOf(getTotalTokens(sd), size.v))

\* getUsedTokens: Math.floor(size * usedPct / 100), the product exact for the
\* sizes and percentages of the model, the quotient a double
getUsedTokens(sd) ==
    LET size == Coalesce(sd.context_window.context_window_size, Whole(200000))
        usedPct == sd.context_window.used_percentage
        product == (size.v \div 10) * usedPct.v
    IN IF ~IsNullish(usedPct)
       THEN IF product = 0 THEN 0 ELSE MathFloor(FloatDiv(product, 1000))
       ELSE getTotalTokens(sd) \div 10

getModelName(sd) ==
    Coalesce(sd.model.display_name, Coalesce(sd.model.id, Str(<<"Unknown">>)))

\* ------------------------------------------------------------ render
\* Texts are sequences of pieces.  colors.js wraps a text in an escape code
\* and RESET; the codes and the symbols
\* outside ASCII are kept as named pieces.
RESET == "<reset>"
Styled(style, text) == <<style>> \o text \o <<RESET>>
getContextColor(percent) == "<color>"
coloredBar(percent) == <<"<bar ", ToString(percent), ">">>

\* a finite number in tenths printed as JavaScript prints it
NumText(x) ==
    IF x.t = "null" THEN <<"null">>
    ELSE IF x.t = "undefined" THEN <<"undefined">>
    ELSE IF x.v % 10 = 0 THEN <<ToString(x.v \div 10)>>
    ELSE <<ToString(x.v \div 10), ".", ToString(x.v % 10)>>

\* parts.join(sep)
RECURSIVE Join(_, _)
Join(parts, sep) ==
    IF parts = <<>> THEN <<>>
    ELSE IF Len(parts) = 1 THEN parts[1]
    ELSE parts[1] \o sep \o Join(Tail(parts), sep)

\* formatTokens on a whole number; toFixed rounds the quotient, which is
\* exact for the thousands and is no tie for the millions of the model
formatTokens(n) ==
    IF n >= 1000000
    THEN <<ToString((n + 50000) \div 1000000), ".",
           ToString(((n + 50000) \div 100000) % 10), "M">>
    ELSE IF n >= 1000 THEN <<ToString((n + 500) \div 1000), "k">>
    ELSE <<ToString(n)>>

formatUsagePercent(percent) ==
    IF percent.t = "null" THEN Styled("<dim>", <<"--">>)
    ELSE <<getContextColor(percent)>> \o NumText(percent) \o <<"%", RESET>>

\* formatResetTime: the countdown, empty when there is none
formatResetTime(resetAt, clock) ==
    LET diffMs == resetAt.v - clock
        diffMins == (diffMs + 59999) \div 60000
        hours == diffMins \div 60
        mins == diffMins % 60
        days == hours \div 24
        remainingHours == hours % 24
    IN IF IsFalsy(resetAt) \/ diffMs <= 0 THEN <<>>
       ELSE IF diffMins < 60 THEN <<ToString(diffMins), "m">>
       ELSE IF hours >= 24
            THEN IF remainingHours > 0
                 THEN <<ToString(days), "d ", ToString(remainingHours), "h">>
                 ELSE <<ToString(days), "d">>
       ELSE IF mins > 0 THEN <<ToString(hours), "h ", ToString(mins), "m">>
       ELSE <<ToString(hours), "h">>

\* formatResetTimeOnly, the local time zone being UTC
formatResetTimeOnly(resetAt, clock) ==
    LET hours == (resetAt.v \div 3600000) % 24
        mins == (resetAt.v \div 60000) % 60
        ampm == IF hours >= 12 THEN "PM" ELSE "AM"
        hours12 == IF hours % 12 = 0 THEN 12 ELSE hours % 12
        minsStr == IF mins < 10 THEN <<"0", ToString(mins)>> ELSE <<ToString(mins)>>
    IN IF IsFalsy(resetAt) \/ resetAt.v <= clock THEN <<>>
       ELSE <<ToString(hours12), ":">> \o minsStr \o <<" ", ampm>>

\* formatResetDateTime; 1 January 1970 was a Thursday
formatResetDateTime(resetAt, clock) ==
    LET days == <<"Sun", "Mon", "Tue", "Wed", "Thu", "Fri", "Sat">>
        dayName == days[(((resetAt.v \div 86400000) + 4) % 7) + 1]
    IN IF IsFalsy(resetAt) \/ resetAt.v <= clock THEN <<>>
       ELSE <<"Resets ", dayName, " ">> \o formatResetTimeOnly(resetAt, clock)

\* text.replace(piece, ''): the first occurrence only
RECURSIVE RemoveFirst(_, _)
RemoveFirst(text, piece) ==
    IF text = <<>> THEN <<>>
    ELSE IF Head(text) = piece THEN Tail(text)
    ELSE <<Head(text)>> \o RemoveFirst(Tail(text), piece)

\* formatModelQuota; weeklyHoursUsed and weeklyHoursLimit are null in every
\* quota of the model
formatModelQuota(quota) ==
    LET util == Coalesce(quota.utilization, Whole(0))
        stripped == RemoveFirst(RemoveFirst(quota.displayName.s, "Claude "), " ")
        shortName == SubSeq(stripped, 1, Min(8, Len(stripped)))
    IN <<getContextColor(util)>> \o shortName \o <<": ">> \o NumText(util)
          \o <<"%", RESET>>

isLimitReached(data) == data.fiveHour = Whole(100) \/ data.sevenDay = Whole(100)

\* getMostRestrictiveQuota: None is null
RECURSIVE reduceQuotas(_, _)
reduceQuotas(max, quotas) ==
    IF quotas = <<>> THEN max
    ELSE reduceQuotas(IF Coalesce(Head(quotas).utilization, Whole(0)).v
                            > Coalesce(max.utilization, Whole(0)).v
                         THEN Head(quotas) ELSE max,
                      Tail(quotas))
getMostRestrictiveQuota(data) ==
    IF data.modelQuotas = None THEN None
    ELSE IF data.modelQuotas[1] = <<>> THEN None
    ELSE Some(reduceQuotas(data.modelQuotas[1][1], Tail(data.modelQuotas[1])))

\* renderSessionLine, lines 24-41: the model and the context bar
firstPartBare(sd, c) ==
    LET percent == getContextPercent(sd)
        contextSize == Coalesce(sd.context_window.context_window_size, Whole(0))
        tokenDisplay == <<getContextColor(percent)>> \o formatTokens(getUsedTokens(sd))
                           \o <<"/">> \o formatTokens(contextSize.v \div 10) \o <<RESET>>
        percentDisplay == <<getContextColor(percent), ToString(percent), "%", RESET>>
    IN coloredBar(percent) \o <<" ">> \o percentDisplay \o <<" ">> \o tokenDisplay
firstPart(sd, c) ==
    LET model == getModelName(sd).s
        showPlanName == /\ c.config.display.showUsage # Bool(FALSE)
                        /\ c.usageData # None
                        /\ ~IsFalsy(c.usageData[1].planName)
        modelDisplay == IF showPlanName
                        THEN model \o <<" | ">> \o c.usageData[1].planName.s
                        ELSE model
    IN IF c.config.display.showModel # Bool(FALSE)
       THEN Styled("<accent>", <<"[">> \o modelDisplay \o <<"]">>) \o <<" ">>
               \o firstPartBare(sd, c)
       ELSE firstPartBare(sd, c)

\* lines 43-79: the project path, a cwd being given as its segments and
\* separators
IsSeparator(piece) == piece \in {"/", "\\"}
projectParts(sd, c) ==
    LET segments == SelectSeq(sd.cwd.s, LAMBDA piece : ~IsSeparator(piece) /\ piece # "")
        pathLevels == Coalesce(c.config.pathLevels, Whole(1)).v \div 10
        shown == SliceLast(segments, pathLevels)
        projectPath == IF Len(segments) > 0
                       THEN Join([i \in 1..Len(shown) |-> <<shown[i]>>], <<"/">>)
                       ELSE <<"/">>
        gitConfig == c.config.gitStatus
        showGit == ~IsFalsy(Coalesce(gitConfig.enabled, Bool(TRUE)))
        git == c.gitStatus[1]
        gitParts == <<git.branch>>
                    \o (IF ~IsFalsy(Coalesce(gitConfig.showDirty, Bool(TRUE))) /\ git.isDirty
                        THEN <<"*">> ELSE <<>>)
                    \o (IF ~IsFalsy(gitConfig.showAheadBehind) /\ git.ahead > 0
                        THEN <<" <up>", ToString(git.ahead)>> ELSE <<>>)
                    \o (IF ~IsFalsy(gitConfig.showAheadBehind) /\ git.behind > 0
                        THEN <<" <down>", ToString(git.behind)>> ELSE <<>>)
        gitPart == IF showGit /\ c.gitStatus # None
                   THEN <<" ">> \o Styled("<magenta>", <<"git:(">>)
                           \o Styled("<cyan>", gitParts) \o Styled("<magenta>", <<")">>)
                   ELSE <<>>
    IN IF IsFalsy(sd.cwd) THEN <<>>
       ELSE <<Styled("<yellow>", projectPath) \o gitPart>>

\* lines 81-98: the configuration counts
countPart(count, label) ==
    IF count > 0 THEN <<Styled("<dim>", <<ToString(count), label>>)>> ELSE <<>>
countParts(c) ==
    IF c.config.display.showConfigCounts # Bool(FALSE)
    THEN countPart(c.claudeMdCount, " CLAUDE.md") \o countPart(c.rulesCount, " rules")
            \o countPart(c.mcpCount, " MCPs") \o countPart(c.hooksCount, " hooks")
    ELSE <<>>

\* lines 102-146: the warning, the reached limit, or the two windows
limitPart(data, clock) ==
    LET countdown == IF IsNullish(data.fiveHourResetIn)
                     THEN formatResetTime(data.fiveHourResetAt, clock)
                     ELSE data.fiveHourResetIn.s
        resetTime == formatResetTimeOnly(data.fiveHourResetAt, clock)
        fiveHourResetDisplay ==
            IF data.fiveHour = Whole(100) /\ ~IsFalsy(data.fiveHourResetAt)
            THEN IF countdown # <<>> /\ resetTime # <<>>
                 THEN <<" (">> \o countdown \o <<", Resets ">> \o resetTime \o <<")">>
                 ELSE IF countdown # <<>> THEN <<" (">> \o countdown \o <<")">>
                 ELSE <<>>
            ELSE <<>>
        sevenDayReset == formatResetDateTime(data.sevenDayResetAt, clock)
        sevenDayDisplay ==
            IF data.sevenDay.t = "null" THEN <<>>
            ELSE IF sevenDayReset # <<>>
            THEN <<" | 7d: ">> \o formatUsagePercent(data.sevenDay) \o <<" (">>
                    \o sevenDayReset \o <<")">>
            ELSE <<" | 7d: ">> \o formatUsagePercent(data.sevenDay)
    IN Styled("<red>", <<"<warn> 5h limit">> \o fiveHourResetDisplay) \o sevenDayDisplay
windowsPartAbove80(data, clock) ==
    LET fiveHourReset == IF IsNullish(data.fiveHourResetIn)
                         THEN formatResetTime(data.fiveHourResetAt, clock)
                         ELSE data.fiveHourResetIn.s
        fiveHourPart == IF fiveHourReset # <<>>
                        THEN <<"5h: ">> \o formatUsagePercent(data.fiveHour) \o <<" (">>
                                \o fiveHourReset \o <<")">>
                        ELSE <<"5h: ">> \o formatUsagePercent(data.fiveHour)
    IN IF data.sevenDay.t # "null" /\ data.sevenDay.v >= 800
       THEN fiveHourPart \o <<" | 7d: ">> \o formatUsagePercent(data.sevenDay)
       ELSE fiveHourPart
windowsPart(data, clock) ==
    LET fiveHourReset == IF IsNullish(data.fiveHourResetIn)
                         THEN formatResetTime(data.fiveHourResetAt, clock)
                         ELSE data.fiveHourResetIn.s
        fiveHourPart == IF fiveHourReset # <<>>
                        THEN <<"5h: ">> \o formatUsagePercent(data.fiveHour) \o <<" (">>
                                \o fiveHourReset \o <<")">>
                        ELSE <<"5h: ">> \o formatUsagePercent(data.fiveHour)
        sevenDayReset == formatResetDateTime(data.sevenDayResetAt, clock)
        sevenDayPart == IF sevenDayReset # <<>>
                        THEN <<"7d: ">> \o formatUsagePercent(data.sevenDay) \o <<" (">>
                                \o sevenDayReset \o <<")">>
                        ELSE <<"7d: ">> \o formatUsagePercent(data.sevenDay)
    IN IF data.sevenDay.t # "null" THEN fiveHourPart \o <<" | ">> \o sevenDayPart
       ELSE fiveHourPart

\* lines 148-165: the tier, the model quota and the compaction threshold
extraParts(data) ==
    LET tierInfo == data.maxPlanInfo[1]
        tokens == IF IsFalsy(tierInfo.tokensPerWindow) THEN <<>>
                  ELSE formatTokens(tierInfo.tokensPerWindow.v \div 10)
        modelQuota == getMostRestrictiveQuota(data)
        compaction == data.compactionInfo[1]
    IN (IF data.maxPlanInfo = None THEN <<>>
        ELSE IF IsFalsy(tierInfo.tier) THEN <<>>
        ELSE <<Styled("<dim>", <<"<blue>">> \o tierInfo.tier.s \o <<RESET>>
                   \o (IF tokens # <<>>
                       THEN Styled("<dim>", <<" ">> \o tokens \o <<"/win">>)
                       ELSE <<>>))>>)
       \o (IF modelQuota = None THEN <<>>
           ELSE IF /\ modelQuota[1].utilization.t = "number"
                   /\ modelQuota[1].utilization.v >= 500
           THEN <<formatModelQuota(modelQuota[1])>> ELSE <<>>)
       \o (IF data.compactionInfo = None THEN <<>>
           ELSE IF /\ ~IsFalsy(compaction.isEnabled)
                   /\ compaction.bufferPercent # Whole(80)
           THEN <<Styled("<dim>", <<"compact@">> \o NumText(compaction.bufferPercent)
                                     \o <<"%">>)>>
           ELSE <<>>)

usagePartsSilent(c, clock) ==
    LET data == c.usageData[1] IN
    IF c.config.display.showUsage = Bool(FALSE) \/ c.usageData = None THEN <<>>
    ELSE IF IsFalsy(data.planName) \/ ~IsFalsy(data.apiUnavailable) THEN <<>>
    ELSE (IF isLimitReached(data) THEN <<limitPart(data, clock)>>
          ELSE <<windowsPart(data, clock)>>)
         \o extraParts(data)
\* lines 100-166: the usage parts
usageParts(c, clock) ==
    LET data == c.usageData[1] IN
    IF c.config.display.showUsage = Bool(FALSE) \/ c.usageData = None THEN <<>>
    ELSE IF IsFalsy(data.planName) THEN <<>>
    ELSE (IF ~IsFalsy(data.apiUnavailable)
          THEN <<Styled("<yellow>", <<"usage: <warn>">>)>>
          ELSE IF isLimitReached(data) THEN <<limitPart(data, clock)>>
          ELSE <<windowsPart(data, clock)>>)
         \o extraParts(data)

\* lines 168-171
durationParts(c) ==
    IF c.config.display.showDuration # Bool(FALSE) /\ ~IsFalsy(c.sessionDuration)
    THEN <<Styled("<dim>", <<"<timer>  ">> \o c.sessionDuration.s)>>
    ELSE <<>>

\* lines 175-183: the token breakdown at high context
breakdown(sd, c) ==
    LET usage == sd.context_window.current_usage
        input == Coalesce(usage.input_tokens, Whole(0)).v \div 10
        cache == (Coalesce(usage.cache_creation_input_tokens, Whole(0)).v
                  + Coalesce(usage.cache_read_input_tokens, Whole(0)).v) \div 10
    IN IF /\ c.config.display.showTokenBreakdown # Bool(FALSE)
          /\ getContextPercent(sd) >= 85
          /\ usage.present
       THEN Styled("<dim>", <<" (in: ">> \o formatTokens(input) \o <<", cache: ">>
                               \o formatTokens(cache) \o <<")">>)
       ELSE <<>>

renderSessionLine(sd, c, clock) ==
    Join(<<firstPart(sd, c)>> \o projectParts(sd, c) \o countParts(c)
            \o usageParts(c, clock) \o durationParts(c),
         <<" | ">>)
       \o breakdown(sd, c)

\* ------------------------------------------------------------ config
\* Strings are one piece each.  An object the user left out has only missing
\* fields.
Text(name) == Str(<<name>>)
DEFAULT_CONFIG ==
    [layout |-> Text("default"),
     pathLevels |-> Whole(1),
     colorTheme |-> Text("blue"),
     gitStatus |-> [enabled |-> Bool(TRUE), showDirty |-> Bool(TRUE),
                    showAheadBehind |-> Bool(FALSE), showFileStats |-> Bool(FALSE)],
     display |-> [showModel |-> Bool(TRUE), showContextBar |-> Bool(TRUE),
                  showConfigCounts |-> Bool(TRUE), showDuration |-> Bool(TRUE),
                  showTokenBreakdown |-> Bool(TRUE), showUsage |-> Bool(TRUE),
                  showTools |-> Bool(TRUE), showAgents |-> Bool(TRUE),
                  showTodos |-> Bool(TRUE), showLastMessage |-> Bool(FALSE),
                  showSpeed |-> Bool(FALSE), contextValue |-> Text("percent"),
                  usageBarEnabled |-> Bool(TRUE), usageThreshold |-> Whole(0),
                  sevenDayThreshold |-> Whole(80), environmentThreshold |-> Whole(0),
                  autocompactBuffer |-> Text("enabled")]]

validatePathLevels(value) == value \in {Whole(1), Whole(2), Whole(3)}
validateLayout(value) == value \in {Text("default"), Text("separators")}
validateAutocompactBuffer(value) == value \in {Text("enabled"), Text("disabled")}
validateColorTheme(value) ==
    value \in {Text("gray"), Text("orange"), Text("blue"), Text("teal"), Text("green"),
               Text("lavender"), Text("rose"), Text("gold"), Text("slate"), Text("cyan")}

\* typeof value === 'boolean' ? value : fallback, and the same for 'number'
BooleanOr(value, fallback) == IF value.t = "boolean" THEN value ELSE fallback
NumberOr(value, fallback) ==
    IF value.t \in {"number", "NaN", "Infinity"} THEN value ELSE fallback

NumberFields == {"usageThreshold", "sevenDayThreshold", "environmentThreshold"}
mergeDisplay(display, field) ==
    IF field = "contextValue"
    THEN IF display[field] = Text("tokens") THEN Text("tokens")
         ELSE DEFAULT_CONFIG.display[field]
    ELSE IF field = "autocompactBuffer"
    THEN IF validateAutocompactBuffer(display[field]) THEN display[field]
         ELSE DEFAULT_CONFIG.display[field]
    ELSE IF field \in NumberFields
    THEN NumberOr(display[field], DEFAULT_CONFIG.display[field])
    ELSE BooleanOr(display[field], DEFAULT_CONFIG.display[field])
mergeConfigUnchecked(userConfig) == userConfig
mergeConfig(userConfig) ==
    [layout |-> IF validateLayout(userConfig.layout) THEN userConfig.layout
                ELSE DEFAULT_CONFIG.layout,
     pathLevels |-> IF validatePathLevels(userConfig.pathLevels)
                    THEN userConfig.pathLevels ELSE DEFAULT_CONFIG.pathLevels,
     colorTheme |-> IF validateColorTheme(userConfig.colorTheme)
                    THEN userConfig.colorTheme ELSE DEFAULT_CONFIG.colorTheme,
     gitStatus |-> [f \in DOMAIN DEFAULT_CONFIG.gitStatus |->
                        BooleanOr(userConfig.gitStatus[f], DEFAULT_CONFIG.gitStatus[f])],
     display |-> [f \in DOMAIN DEFAULT_CONFIG.display |->
                      mergeDisplay(userConfig.display, f)]]

\* config.json: absent, unreadable, no JSON, or JSON whose value is null, a
\* scalar (every property of it is undefined) or an object
NoUserConfig ==
    [layout |-> Undef, pathLevels |-> Undef, colorTheme |-> Undef,
     gitStatus |-> [f \in DOMAIN DEFAULT_CONFIG.gitStatus |-> Undef],
     display |-> [f \in DOMAIN DEFAULT_CONFIG.display |-> Undef]]
ConfigFile(st, userConfig) == [st |-> st, userConfig |-> userConfig]
Loaded(config) == [st |-> "fulfilled", config |-> config]
LoadRejected == [st |-> "rejected", config |-> NoUserConfig]

\* loadConfig: what its promise settles to
loadConfigUncaught(f) ==
    IF f.st = "absent" THEN Loaded(DEFAULT_CONFIG)
    ELSE IF f.st \in {"unreadable", "garbage", "null"} THEN LoadRejected
    ELSE Loaded(mergeConfig(f.userConfig))
loadConfig(f) ==
    IF f.st = "absent" THEN Loaded(DEFAULT_CONFIG)
    ELSE IF f.st \in {"unreadable", "garbage", "null"} THEN Loaded(DEFAULT_CONFIG)
    ELSE Loaded(mergeConfig(f.userConfig))

\* ------------------------------------------------------------ state
Procs == {1, 2}

VARIABLES
    file,   \* the cache file .usage-cache.json
    pc,     \* where each getUsage invocation stands
    now,    \* deps.now() of the invocation
    cred,   \* planName, organizationUuid, rateLimitTier once resolved
    api,    \* the promise of deps.fetchApi
    lim,    \* the promise of deps.fetchUsageLimits
    pend,   \* the payload handed to writeCache
    ret,    \* what the invocation's promise resolved to
    h,      \* what the invocation did (observation only)
    prev,   \* what the invocation before it did (observation only)
    transcript,   \* the transcript path and the file behind it
    wall,         \* what new Date() reads during the parse
    tpc,          \* where parseTranscript stands
    pos,          \* the lines the for-await loop has taken
    toolMap,      \* parseTranscript's locals and its result
    agentMap,
    latestTodos,
    userMessages,
    result,
    failed,       \* the read stream raised an error (observation only)
    stdin,        \* the payload the host wrote to standard input
    ctx,          \* the rest of the RenderContext
    clock,        \* what new Date() reads during the render
    rpc,          \* where the render stands
    percent,      \* renderSessionLine's local of that name
    line,         \* what renderSessionLine returned
    configFile,   \* the file config.json
    cpc,          \* where loadConfig stands
    loaded        \* what loadConfig's promise settled to

uvars == <<file, pc, now, cred, api, lim, pend, ret, h, prev>>
tvars == <<transcript, wall, tpc, pos, toolMap, agentMap, latestTodos,
           userMessages, result, failed>>
cvars == <<configFile, cpc, loaded>>
rvars == <<stdin, ctx, clock, rpc, percent, line, cvars>>
vars == <<uvars, tvars, rvars>>

\* no transcript is being parsed
NoTranscript == [path |-> "", exists |-> FALSE, lines |-> <<>>]
TIdle ==
    /\ transcript = NoTranscript
    /\ wall = 0
    /\ tpc = "off"
    /\ pos = 0
    /\ toolMap = <<>>
    /\ agentMap = <<>>
    /\ latestTodos = <<>>
    /\ userMessages = <<>>
    /\ result = EmptyResult
    /\ failed = FALSE

\* no configuration is being loaded
CIdle ==
    /\ configFile = <<>>
    /\ cpc = "off"
    /\ loaded = <<>>

\* nothing is being rendered
LIdle ==
    /\ stdin = <<>>
    /\ ctx = <<>>
    /\ clock = 0
    /\ rpc = "off"
    /\ percent = 0
    /\ line = <<>>
RIdle == LIdle /\ CIdle

NoPromise == [st |-> "none", val |-> None]
Pending == [st |-> "pending", val |-> None]
Fulfilled(resp) == [st |-> "fulfilled", val |-> resp]
Rejected == [st |-> "rejected", val |-> None]

NoRet == [st |-> "running", val |-> None]
RetNull == [st |-> "null", val |-> None]
RetData(d) == [st |-> "data", val |-> Some(d)]

NoCred == [planName |-> Null, organizationUuid |-> Undef, rateLimitTier |-> Undef]

FreshH ==
    [seen |-> NoFile, hit |-> FALSE, credRead |-> FALSE, credIn |-> <<None, None>>,
     apiCalls |-> 0, limCalls |-> 0, threw |-> "none", caught |-> FALSE,
     merged |-> None, racing |-> FALSE, stored |-> "none"]

\* the summary kept of the invocation before
NoPrev == [stored |-> "none", at |-> 0, apiCalls |-> 0, limCalls |-> 0]
Summary(hp, n) ==
    [stored |-> hp.stored, at |-> n, apiCalls |-> hp.apiCalls, limCalls |-> hp.limCalls]

Init ==
    /\ file \in {NoFile, PartialFile}
    /\ pc = [p \in Procs |-> "idle"]
    /\ now = [p \in Procs |-> 0]
    /\ cred = [p \in Procs |-> NoCred]
    /\ api = [p \in Procs |-> NoPromise]
    /\ lim = [p \in Procs |-> NoPromise]
    /\ pend = [p \in Procs |-> None]
    /\ ret = [p \in Procs |-> NoRet]
    /\ h = [p \in Procs |-> FreshH]
    /\ prev = [p \in Procs |-> NoPrev]
    /\ TIdle
    /\ RIdle

\* the invocation returns: its promise resolves
Finish(p, r) ==
    /\ pc' = [pc EXCEPT ![p] = "done"]
    /\ ret' = [ret EXCEPT ![p] = r]

\* the catch block of getUsage: the error is logged and null returned
RetThrew == [st |-> "threw", val |-> None]
Rethrown(p, hp) ==
    /\ h' = [h EXCEPT ![p] = [hp EXCEPT !.caught = TRUE]]
    /\ Finish(p, RetThrew)
Caught(p, hp) ==
    /\ h' = [h EXCEPT ![p] = [hp EXCEPT !.caught = TRUE]]
    /\ Finish(p, RetNull)

\* a cache hit that stamps the record anew
StartRewriting(p, Nows) ==
    /\ pc[p] \in {"idle", "done"}
    /\ \E n \in Nows :
        LET cached == readCache(file, n)
            h0 == [FreshH EXCEPT !.seen = file, !.hit = cached # None,
                                 !.racing = \E q \in Procs \ {p} : pc[q] = "flush"]
        IN /\ now' = [now EXCEPT ![p] = n]
           /\ prev' = [prev EXCEPT ![p] = Summary(h[p], now[p])]
           /\ h' = [h EXCEPT ![p] = h0]
           /\ cred' = [cred EXCEPT ![p] = NoCred]
           /\ api' = [api EXCEPT ![p] = NoPromise]
           /\ lim' = [lim EXCEPT ![p] = NoPromise]
           /\ pend' = [pend EXCEPT ![p] = None]
           /\ IF cached # None
              THEN /\ Finish(p, RetData(cachedResult(cached[1], n)))
                   /\ file' = [file EXCEPT !.rec = Some([@[1] EXCEPT !.timestamp = n])]
              ELSE /\ pc' = [pc EXCEPT ![p] = "creds"]
                   /\ ret' = [ret EXCEPT ![p] = NoRet]
                   /\ UNCHANGED file
    /\ UNCHANGED <<tvars, rvars>>

\* getUsage up to the cache check: a hit returns at once
Start(p, Nows) ==
    /\ pc[p] \in {"idle", "done"}
    /\ \E n \in Nows :
        LET cached == readCache(file, n)
            h0 == [FreshH EXCEPT !.seen = file, !.hit = cached # None,
                                 !.racing = \E q \in Procs \ {p} : pc[q] = "flush"]
        IN /\ now' = [now EXCEPT ![p] = n]
           /\ prev' = [prev EXCEPT ![p] = Summary(h[p], now[p])]
           /\ h' = [h EXCEPT ![p] = h0]
           /\ cred' = [cred EXCEPT ![p] = NoCred]
           /\ api' = [api EXCEPT ![p] = NoPromise]
           /\ lim' = [lim EXCEPT ![p] = NoPromise]
           /\ pend' = [pend EXCEPT ![p] = None]
           /\ IF cached # None
              THEN Finish(p, RetData(cachedResult(cached[1], n)))
              ELSE /\ pc' = [pc EXCEPT ![p] = "creds"]
                   /\ ret' = [ret EXCEPT ![p] = NoRet]
    /\ UNCHANGED file
    /\ UNCHANGED <<tvars, rvars>>

\* readCredentials and getPlanName
ReadCreds(p, Sources) ==
    /\ pc[p] = "creds"
    /\ \E src \in Sources :
        LET c == readCredentials(src[1], src[2], now[p])
            planName == IF c = None THEN Null
                        ELSE getPlanName(c[1].subscriptionType.s, TRUE)
        IN /\ h' = [h EXCEPT ![p].credRead = TRUE, ![p].credIn = src]
           /\ IF c = None \/ IsFalsy(planName)
              THEN /\ Finish(p, RetNull)
                   /\ UNCHANGED cred
              ELSE /\ cred' = [cred EXCEPT ![p] =
                            [planName |-> planName,
                             organizationUuid |-> c[1].organizationUuid,
                             rateLimitTier |-> c[1].rateLimitTier]]
                   /\ pc' = [pc EXCEPT ![p] = "call"]
                   /\ UNCHANGED ret
    /\ UNCHANGED <<file, now, api, lim, pend, prev>>
    /\ UNCHANGED <<tvars, rvars>>

\* the two calls inside Promise.all([...]); a call that throws is caught
CallFetch(p, ApiCall, LimCall) ==
    /\ pc[p] = "call"
    /\ \E a \in ApiCall, l \in LimCall :
        IF a = "throws"
        THEN /\ Caught(p, [h[p] EXCEPT !.apiCalls = 1, !.threw = "api"])
             /\ UNCHANGED <<api, lim>>
        ELSE IF l = "throws"
        THEN /\ Caught(p, [h[p] EXCEPT !.apiCalls = 1, !.limCalls = 1, !.threw = "lim"])
             /\ api' = [api EXCEPT ![p] = Pending]
             /\ UNCHANGED lim
        ELSE /\ h' = [h EXCEPT ![p].apiCalls = 1, ![p].limCalls = 1]
             /\ api' = [api EXCEPT ![p] = Pending]
             /\ lim' = [lim EXCEPT ![p] = Pending]
             /\ pc' = [pc EXCEPT ![p] = "await"]
             /\ UNCHANGED ret
    /\ UNCHANGED <<file, now, cred, pend, prev>>
    /\ UNCHANGED <<tvars, rvars>>

\* the legacy endpoint's promise settles
SettleApi(p, Outcomes) ==
    /\ pc[p] = "await"
    /\ api[p].st = "pending"
    /\ \E o \in Outcomes : api' = [api EXCEPT ![p] = o]
    /\ UNCHANGED <<file, pc, now, cred, lim, pend, ret, h, prev>>
    /\ UNCHANGED <<tvars, rvars>>

\* the enhanced endpoint's promise settles
SettleLimits(p, Outcomes) ==
    /\ pc[p] = "await"
    /\ lim[p].st = "pending"
    /\ \E o \in Outcomes : lim' = [lim EXCEPT ![p] = o]
    /\ UNCHANGED <<file, pc, now, cred, api, pend, ret, h, prev>>
    /\ UNCHANGED <<tvars, rvars>>

\* Promise.all: fulfilled when both are, rejected as soon as one is
AllSettledState(a, l) ==
    IF a.st = "rejected" \/ l.st = "rejected" THEN "rejected"
    ELSE IF a.st = "fulfilled" /\ l.st = "fulfilled" THEN "fulfilled"
    ELSE "pending"

\* getUsage after the await: merge, failure payload or parse
Resume(p) ==
    /\ pc[p] = "await"
    /\ AllSettledState(api[p], lim[p]) # "pending"
    /\ IF AllSettledState(api[p], lim[p]) = "rejected"
       THEN /\ Caught(p, h[p])
            /\ UNCHANGED pend
       ELSE LET merged == mergeApiResponses(api[p].val, lim[p].val) IN
            IF merged = None
            THEN /\ pend' = [pend EXCEPT ![p] = Some(failureResult(cred[p].planName))]
                 /\ pc' = [pc EXCEPT ![p] = "write"]
                 /\ UNCHANGED <<ret, h>>
            ELSE IF MaxPlanThrows(merged[1].max_plan_type, cred[p].rateLimitTier)
            THEN /\ Caught(p, [h[p] EXCEPT !.merged = merged])
                 /\ UNCHANGED pend
            ELSE /\ pend' = [pend EXCEPT ![p] =
                        Some(BuildResult(merged[1], cred[p].planName,
                                cred[p].organizationUuid, cred[p].rateLimitTier, now[p]))]
                 /\ pc' = [pc EXCEPT ![p] = "write"]
                 /\ h' = [h EXCEPT ![p].merged = merged]
                 /\ UNCHANGED ret
    /\ UNCHANGED <<file, now, cred, api, lim, prev>>
    /\ UNCHANGED <<tvars, rvars>>

\* writeCache, fs.writeFileSync opening the file: the old content is gone
WriteOpen(p) ==
    /\ pc[p] = "write"
    /\ file' = PartialFile
    /\ pc' = [pc EXCEPT ![p] = "flush"]
    /\ UNCHANGED <<now, cred, api, lim, pend, ret, h, prev>>
    /\ UNCHANGED <<tvars, rvars>>

\* fs.writeFileSync writes its text from offset 0 over what the file holds.
\* After its own truncation the file holds something only when another
\* invocation has written since, and the tail of that text stays when it is
\* the longer one. A failure record is shorter than a record with a reset
\* time and its countdown: it has apiUnavailable (22 characters) where the
\* other has a date for a null (22 more) and a countdown member (23 or more).
ShorterText(data, old) ==
    ~IsFalsy(data.apiUnavailable) /\ old.fiveHourResetIn.t = "string"
Overwritten(f, data, timestamp) ==
    IF f.st = "ok" /\ ShorterText(data, f.rec[1].data) THEN GarbledFile
    ELSE FileOf(data, timestamp)

\* writeCache, fs.writeFileSync writing the JSON text; getUsage returns
WriteData(p) ==
    /\ pc[p] = "flush"
    /\ file' = Overwritten(file, pend[p][1], now[p])
    /\ h' = [h EXCEPT ![p].stored =
                IF ~IsFalsy(pend[p][1].apiUnavailable) THEN "failure" ELSE "success"]
    /\ Finish(p, RetData(pend[p][1]))
    /\ UNCHANGED <<now, cred, api, lim, pend, prev>>
    /\ UNCHANGED <<tvars, rvars>>

\* the catch block of writeCache: the failure is ignored, and getUsage goes
\* on to return the payload it was about to store
WriteFailedRethrown(p, hp) == Caught(p, hp)
WriteFailed(p, hp) ==
    /\ h' = [h EXCEPT ![p] = hp]
    /\ Finish(p, RetData(pend[p][1]))

\* writeCache fails before the file is touched: mkdirSync throws, or
\* fs.writeFileSync cannot open the file (read-only directory, EACCES)
WriteRefused(p) ==
    /\ pc[p] = "write"
    /\ WriteFailed(p, [h[p] EXCEPT !.stored = "refused"])
    /\ UNCHANGED <<file, now, cred, api, lim, pend, prev>>
    /\ UNCHANGED <<tvars, rvars>>

\* fs.writeFileSync fails after opening the file (disk full): the file stays
\* cut short
WriteCut(p) ==
    /\ pc[p] = "flush"
    /\ WriteFailed(p, [h[p] EXCEPT !.stored = "cut"])
    /\ UNCHANGED <<file, now, cred, api, lim, pend, prev>>
    /\ UNCHANGED <<tvars, rvars>>

\* ------------------------------------------------------------ inputs
\* the entries of an enhanced response's model_quotas array
MaxQuotas == 1

NoWindow == None
Window(u, r) == Some([utilization |-> u, resets_at |-> r])
Response(f, s, q, t, c, w) ==
    [five_hour |-> f, seven_day |-> s, model_quotas |-> q, max_plan_type |-> t,
     compaction_buffer |-> c, tokens_per_window |-> w]
Quota(i) ==
    [model_id |-> Str(<<"opus", ToString(i)>>), display_name |-> Undef,
     utilization |-> Num(700 * i - 205), resets_at |-> IsoOf(30000 * i)]

\* a legacy answer, an enhanced answer, and an answer of the wrong shape
RespLegacy ==
    Response(Window(Num(424), IsoOf(5400000)), Window(Whole(150), Str(<<"soon">>)),
             None, Undef, Undef, Undef)
RespEnhanced ==
    Response(Window(Whole(-5), IsoOf(30000)), NoWindow,
             Some([i \in 1..MaxQuotas |-> Quota(i)]),
             Str(<<"M", "A", "X", "2", "0">>), Num(855), Undef)
RespMalformed ==
    Response(NoWindow, NoWindow, None, Whole(20), Undef, Undef)

Nows == {0, 14999, 15000, 59999, 60000}
Token == Str(<<"t", "o", "k">>)
CredSources ==
    { <<None, None>>,
      <<CredData(Undef, Str(<<"m", "a", "x">>), Undef, Undef, Undef), None>>,
      <<CredData(Token, Str(<<"M", "a", "x">>), Str(<<"org">>), Undef, Undef), None>>,
      <<CredData(Token, Str(<<"p", "r", "o">>), Undef, Undef, Ms(15000)), None>>,
      <<CredData(Token, Str(<<"a", "p", "i">>), Undef, Undef, Undef), None>>,
      <<None, CredData(Token, Undef, Undef, Str(<<"t", "i", "e", "r", "_", "5">>),
                       Ms(60000))>> }
Calls == {"returns", "throws"}
Outcomes ==
    { Fulfilled(None), Fulfilled(Some(RespLegacy)), Fulfilled(Some(RespEnhanced)),
      Fulfilled(Some(RespMalformed)), Rejected }

\* ------------------------------------------------------------ one
\* invocation after another (the HUD is a new process for each render)
Next ==
    \E p \in {1} :
        \/ Start(p, Nows)
        \/ ReadCreds(p, CredSources)
        \/ CallFetch(p, Calls, Calls)
        \/ SettleApi(p, Outcomes)
        \/ SettleLimits(p, Outcomes)
        \/ Resume(p)
        \/ WriteOpen(p)
        \/ WriteData(p)

Spec == Init /\ [][Next]_vars

\* ------------------------------------------------------------ two
\* renders at once (two terminal tabs): the invocations interleave at every
\* file operation and at every await
ValidCred ==
    <<CredData(Token, Str(<<"M", "a", "x">>), Str(<<"org">>), Undef, Undef), None>>
RaceNows == {0, 15000}
RaceOutcomes == { Fulfilled(None), Fulfilled(Some(RespLegacy)) }

InitRace == Init /\ file = NoFile

NextRace ==
    \E p \in Procs :
        \/ Start(p, RaceNows)
        \/ ReadCreds(p, {ValidCred})
        \/ CallFetch(p, {"returns"}, {"returns"})
        \/ SettleApi(p, RaceOutcomes)
        \/ SettleLimits(p, RaceOutcomes)
        \/ Resume(p)
        \/ WriteOpen(p)
        \/ WriteData(p)

SpecRace == InitRace /\ [][NextRace]_vars

\* ------------------------------------------------------------ one
\* invocation after another, over the answers the endpoints can give
UtilInputs ==
    { Undef, Null, NaN, PosInf, NegInf, Whole(-5), Num(-4), Whole(0), Num(4),
      Num(424), Num(495), Num(995), Whole(100), Num(1004), Whole(150) }
UtilResponse(u) ==
    Response(Window(u, IsoOf(5400000)), Window(u, Undef),
             Some([i \in 1..MaxQuotas |->
                    [model_id |-> Undef, display_name |-> Undef,
                     utilization |-> u, resets_at |-> Null]]),
             Undef, Undef, Undef)

\* which fields an answer carries: all, none, every other one
FieldPatterns == { <<1, 1, 1, 1, 1, 1>>, <<0, 0, 0, 0, 0, 0>>,
                   <<1, 0, 1, 0, 1, 0>>, <<0, 1, 0, 1, 0, 1>> }
LegacyFields(m) ==
    Response(IF m[1] = 1 THEN Window(Whole(10), IsoOf(5400000)) ELSE NoWindow,
             IF m[2] = 1 THEN Window(Whole(11), IsoOf(5400000)) ELSE NoWindow,
             IF m[3] = 1 THEN Some(<<>>) ELSE None,
             IF m[4] = 1 THEN Str(<<>>) ELSE Undef,
             IF m[5] = 1 THEN Whole(0) ELSE Null,
             IF m[6] = 1 THEN Whole(1000) ELSE Undef)
EnhancedFields(m) ==
    Response(IF m[1] = 1 THEN Window(Whole(20), IsoOf(30000)) ELSE NoWindow,
             IF m[2] = 1 THEN Window(Whole(21), IsoOf(30000)) ELSE NoWindow,
             IF m[3] = 1 THEN Some([i \in 1..MaxQuotas |-> Quota(i)]) ELSE None,
             IF m[4] = 1 THEN Str(<<"m", "a", "x", "5">>) ELSE Undef,
             IF m[5] = 1 THEN Whole(85) ELSE Undef,
             IF m[6] = 1 THEN Whole(2000) ELSE Undef)

DataNows == {0, 60000}
LegacyOutcomes ==
    {Fulfilled(None)}
        \cup {Fulfilled(Some(UtilResponse(u))) : u \in UtilInputs}
        \cup {Fulfilled(Some(LegacyFields(m))) : m \in FieldPatterns}
EnhancedOutcomes ==
    {Fulfilled(None)} \cup {Fulfilled(Some(EnhancedFields(m))) : m \in FieldPatterns}

NextData ==
    \E p \in {1} :
        \/ Start(p, DataNows)
        \/ ReadCreds(p, {ValidCred})
        \/ CallFetch(p, {"returns"}, {"returns"})
        \/ SettleApi(p, LegacyOutcomes)
        \/ SettleLimits(p, EnhancedOutcomes)
        \/ Resume(p)
        \/ WriteOpen(p)
        \/ WriteData(p)

SpecData == Init /\ [][NextData]_vars

\* ------------------------------------------------------------ a cache
\* file that cannot be used and a cache directory that cannot be written
CorruptFiles == {PartialFile, UnreadableFile, ShapelessFile}
FaultNows == {0, 15000, 60000}
FaultOutcomes == { Fulfilled(None), Fulfilled(Some(RespLegacy)), Rejected }

InitFault ==
    /\ file \in {NoFile} \cup CorruptFiles
    /\ pc = [p \in Procs |-> "idle"]
    /\ now = [p \in Procs |-> 0]
    /\ cred = [p \in Procs |-> NoCred]
    /\ api = [p \in Procs |-> NoPromise]
    /\ lim = [p \in Procs |-> NoPromise]
    /\ pend = [p \in Procs |-> None]
    /\ ret = [p \in Procs |-> NoRet]
    /\ h = [p \in Procs |-> FreshH]
    /\ prev = [p \in Procs |-> NoPrev]
    /\ TIdle
    /\ RIdle

NextFault ==
    \E p \in {1} :
        \/ Start(p, FaultNows)
        \/ ReadCreds(p, CredSources)
        \/ CallFetch(p, Calls, Calls)
        \/ SettleApi(p, FaultOutcomes)
        \/ SettleLimits(p, FaultOutcomes)
        \/ Resume(p)
        \/ WriteOpen(p)
        \/ WriteData(p)
        \/ WriteRefused(p)
        \/ WriteCut(p)

SpecFault == InitFault /\ [][NextFault]_vars

\* ------------------------------------------------------------ one
\* parseTranscript call
\* getUsage is not running
UIdle ==
    /\ file = NoFile
    /\ pc = [p \in Procs |-> "idle"]
    /\ now = [p \in Procs |-> 0]
    /\ cred = [p \in Procs |-> NoCred]
    /\ api = [p \in Procs |-> NoPromise]
    /\ lim = [p \in Procs |-> NoPromise]
    /\ pend = [p \in Procs |-> None]
    /\ ret = [p \in Procs |-> NoRet]
    /\ h = [p \in Procs |-> FreshH]
    /\ prev = [p \in Procs |-> NoPrev]

CurrentAcc == Acc(toolMap, agentMap, latestTodos, userMessages, result)
SetAcc(a) ==
    /\ toolMap' = a.toolMap
    /\ agentMap' = a.agentMap
    /\ latestTodos' = a.latestTodos
    /\ userMessages' = a.userMessages
    /\ result' = a.result

\* parseTranscript up to the loop: no path or no such file returns at once
Open ==
    /\ tpc = "idle"
    /\ tpc' = IF transcript.path = "" \/ ~transcript.exists THEN "done" ELSE "reading"
    /\ SetAcc(EmptyAcc)
    /\ UNCHANGED <<transcript, wall, pos, failed, uvars, rvars>>

\* one turn of the for-await loop
ReadLine ==
    /\ tpc = "reading"
    /\ pos < Len(transcript.lines)
    /\ pos' = pos + 1
    /\ SetAcc(processLine(CurrentAcc, transcript.lines[pos + 1], wall))
    /\ UNCHANGED <<transcript, wall, tpc, failed, uvars, rvars>>

\* lines 68-77: trim, todos, last user message; parseTranscript returns
Return ==
    /\ result' = snapshot(CurrentAcc)
    /\ tpc' = "done"
    /\ UNCHANGED <<toolMap, agentMap, latestTodos, userMessages>>

\* the loop ends with the file
EndOfFile ==
    /\ tpc = "reading"
    /\ pos = Len(transcript.lines)
    /\ Return
    /\ UNCHANGED <<transcript, wall, pos, failed, uvars, rvars>>

\* the outer catch: the error is dropped and the function goes on to line 68
OuterRethrow ==
    /\ result' = EmptyResult
    /\ tpc' = "threw"
    /\ UNCHANGED <<toolMap, agentMap, latestTodos, userMessages>>
OuterCatch == Return

\* the read stream raises an error (the file vanished, EIO): the iterator
\* rejects and the outer catch takes over
ReadError ==
    /\ tpc = "reading"
    /\ failed' = TRUE
    /\ OuterCatch
    /\ UNCHANGED <<transcript, wall, pos, uvars, rvars>>

\* the transcripts of the model: every file of at most MaxLines lines
MaxLines == 3

UseBlock(id, name, input) == Block("tool_use", id, name, input, 0, FALSE, <<>>)
ResultBlock(id, is_error) == Block("tool_result", 0, "", NoInput, id, is_error, <<>>)
TextBlock(text) == Block("text", 0, "", NoInput, 0, FALSE, text)
OneBlock(type, timestamp, block) == EntryLine(type, timestamp, ArrayContent(<<block>>))

TodosA == <<TodoItem("a", "completed"), TodoItem("b", "in_progress")>>
TodosB == <<TodoItem("c", "pending")>>
LongCommand == Str([i \in 1..31 |-> "x"])

LineAlphabet ==
    { BlankLine, GarbageLine, NullLine,
      OneBlock("assistant", 1,
               UseBlock(1, "Read", [EmptyInput EXCEPT !.file_path = Str(<<"f">>)])),
      OneBlock("user", 2, ResultBlock(1, FALSE)),
      OneBlock("user", 3, ResultBlock(1, TRUE)),
      OneBlock("assistant", 2,
               UseBlock(2, "Task", [EmptyInput EXCEPT !.subagent_type = Str(<<"Explore">>)])),
      OneBlock("user", 0, ResultBlock(2, FALSE)),
      OneBlock("assistant", 0,
               UseBlock(3, "TodoWrite", [EmptyInput EXCEPT !.todos = Some(TodosA)])),
      OneBlock("assistant", 3,
               UseBlock(5, "TodoWrite", [EmptyInput EXCEPT !.todos = Some(TodosB)])),
      OneBlock("assistant", 0, UseBlock(6, "TodoWrite", EmptyInput)),
      OneBlock("assistant", 1, UseBlock(0, "Grep", NoInput)),
      EntryLine("assistant", 3,
                ArrayContent(<<UseBlock(4, "Bash", [EmptyInput EXCEPT !.command = LongCommand]),
                               ResultBlock(4, FALSE)>>)),
      EntryLine("user", 1, StringContent(<<" ", "hi", "\n", "\n", "yo", " ">>)),
      OneBlock("user", 0, TextBlock(<<"[Request interrupted", " ", "by user]">>)) }

Files == UNION { [1..k -> LineAlphabet] : k \in 0..MaxLines }
Transcripts ==
    { NoTranscript, [path |-> "t.jsonl", exists |-> FALSE, lines |-> <<>>] }
    \cup { [path |-> "t.jsonl", exists |-> TRUE, lines |-> f] : f \in Files }
Walls == {9}

InitParse(Inputs) ==
    /\ transcript \in Inputs
    /\ wall \in Walls
    /\ tpc = "idle"
    /\ pos = 0
    /\ toolMap = <<>>
    /\ agentMap = <<>>
    /\ latestTodos = <<>>
    /\ userMessages = <<>>
    /\ result = EmptyResult
    /\ failed = FALSE
    /\ UIdle
    /\ RIdle

NextTranscript == Open \/ ReadLine \/ EndOfFile \/ ReadError

InitTranscript == InitParse(Transcripts)
SpecTranscript == InitTranscript /\ [][NextTranscript]_vars

\* ------------------------------------------------------------ long
\* transcripts: up to MaxRetain tool_use lines with distinct ids (the line
\* numbers), the first k of them Task blocks or every second one, and
\* possibly a closing tool_result for the first id
MaxRetain == 22

RetainLine(i, name) == OneBlock("assistant", i, UseBlock(i, name, EmptyInput))
AgentsFirst(n, k) == [i \in 1..n |-> RetainLine(i, IF i <= k THEN "Task" ELSE "Read")]
Alternate(n) == [i \in 1..n |-> RetainLine(i, IF i % 2 = 0 THEN "Task" ELSE "Edit")]
RetainFiles ==
    LET uses == { AgentsFirst(n, k) : n \in 0..MaxRetain, k \in 0..MaxRetain }
                \cup { Alternate(n) : n \in 0..MaxRetain }
    IN uses \cup { Append(f, OneBlock("user", 0, ResultBlock(1, TRUE))) : f \in uses }

InitRetain ==
    InitParse({ [path |-> "t.jsonl", exists |-> TRUE, lines |-> f] : f \in RetainFiles })
SpecRetain == InitRetain /\ [][NextTranscript]_vars

\* ------------------------------------------------------------ rendering
\* render: renderSessionLine on the payload and the context
Render ==
    /\ rpc = "ready"
    /\ percent' = getContextPercent(stdin)
    /\ line' = renderSessionLine(stdin, ctx, clock)
    /\ rpc' = "done"
    /\ UNCHANGED <<stdin, ctx, clock, cvars, uvars, tvars>>

\* payloads: used_percentage whole, fractional and above 100; sizes missing,
\* zero, negative and positive; token counts missing, zero, below and above
\* the size
Models ==
    { <<Undef, Undef>>,
      <<Str(<<"claude-opus">>), Str(<<"Opus">>)>>,
      <<Str(<<"claude-opus">>), Null>> }
Cwds == {Undef, Str(<<"/", "home", "/", "u", "/", "proj">>)}
UsedPercentages == {Whole(0), Whole(42), Num(425), Whole(100), Whole(150)}
Sizes == {Undef, Whole(0), Whole(-200000), Whole(100), Whole(200000)}
Usages ==
    { NoUsage,
      Usage(Whole(0), Whole(0), Whole(0)),
      Usage(Whole(29), Undef, Undef),
      Usage(Whole(58000), Undef, Undef),
      Usage(Whole(1000), Whole(2000), Whole(3000)),
      Usage(Whole(180000), Undef, Whole(0)),
      Usage(Whole(200000), Whole(50000), Whole(1250000)) }
ContextWindows ==
    { ContextWindow(size, usedPct, usage) :
        size \in {Undef, Whole(0), Whole(200000)},
        usedPct \in UsedPercentages,
        usage \in {NoUsage, Usage(Whole(58000), Undef, Undef)} }
    \cup
    { ContextWindow(size, usedPct, usage) :
        size \in Sizes, usedPct \in {Undef, Null}, usage \in Usages }
Payloads ==
    { StdinData(m[1], m[2], cwd, cw) :
        m \in Models, cwd \in Cwds, cw \in ContextWindows }

\* the usage data: none, a failure with and without a plan, and five answers
RespReached ==
    Response(Window(Whole(100), IsoOf(5400000)), Window(Whole(30), IsoOf(90000000)),
             None, Undef, Undef, Undef)
RespNormal ==
    Response(Window(Whole(25), IsoOf(5400000)), Window(Whole(80), IsoOf(90000000)),
             None, Undef, Undef, Undef)
PlanMax == Str(<<"M", "a", "x">>)
RespQuiet ==
    Response(Window(Whole(25), IsoOf(5400000)), Window(Whole(12), IsoOf(90000000)),
             None, Undef, Undef, Undef)
UsageDatas ==
    { None, Some(failureResult(PlanMax)), Some(failureResult(Null)) }
    \cup { Some(BuildResult(m, PlanMax, Undef, Undef, 0)) :
             m \in {RespLegacy, RespEnhanced, RespReached, RespNormal, RespQuiet} }

\* configurations as mergeConfig leaves them
Config(showModel, shown, pathLevels, showAheadBehind) ==
    [display |-> [showModel |-> Bool(showModel), showUsage |-> Bool(shown),
                  showConfigCounts |-> Bool(shown), showDuration |-> Bool(shown),
                  showTokenBreakdown |-> Bool(shown)],
     pathLevels |-> Whole(pathLevels),
     gitStatus |-> [enabled |-> Bool(shown), showDirty |-> Bool(TRUE),
                    showAheadBehind |-> Bool(showAheadBehind)]]
Configs ==
    { Config(TRUE, TRUE, 1, FALSE), Config(FALSE, TRUE, 2, TRUE),
      Config(TRUE, FALSE, 3, FALSE) }

\* the backends: all of them down, or all of them up
Context(usageData, config, up) ==
    [usageData |-> usageData,
     config |-> config,
     gitStatus |-> IF up THEN Some([branch |-> "main", isDirty |-> TRUE,
                                    ahead |-> 2, behind |-> 0])
                   ELSE None,
     claudeMdCount |-> IF up THEN 1 ELSE 0,
     rulesCount |-> 0,
     mcpCount |-> IF up THEN 3 ELSE 0,
     hooksCount |-> 0,
     sessionDuration |-> IF up THEN Str(<<"5m">>) ELSE Str(<<>>)]
Contexts ==
    { Context(u, c, up) : u \in UsageDatas, c \in Configs, up \in BOOLEAN }
Clocks == {0, 6000000}

InitRender ==
    /\ stdin \in Payloads
    /\ ctx \in Contexts
    /\ clock \in Clocks
    /\ rpc = "ready"
    /\ percent = 0
    /\ line = <<>>
    /\ CIdle
    /\ UIdle
    /\ TIdle
NextRender == Render
SpecRender == InitRender /\ [][NextRender]_vars

\* ------------------------------------------------------------ loading
LoadConfig ==
    /\ cpc = "ready"
    /\ loaded' = loadConfig(configFile)
    /\ cpc' = "done"
    /\ UNCHANGED <<configFile, stdin, ctx, clock, rpc, percent, line, uvars, tvars>>

\* user configurations: each varied field missing, valid, and invalid
UserConfig(layout, pathLevels, colorTheme, enabled, showModel, contextValue,
           usageThreshold, autocompactBuffer) ==
    [layout |-> layout, pathLevels |-> pathLevels, colorTheme |-> colorTheme,
     gitStatus |-> [NoUserConfig.gitStatus EXCEPT !.enabled = enabled],
     display |-> [NoUserConfig.display EXCEPT
                    !.showModel = showModel, !.contextValue = contextValue,
                    !.usageThreshold = usageThreshold,
                    !.autocompactBuffer = autocompactBuffer]]
UserConfigs ==
    { UserConfig(layout, pathLevels, colorTheme, enabled, showModel, contextValue,
                 usageThreshold, autocompactBuffer) :
        layout \in {Undef, Text("separators"), Text("wide")},
        pathLevels \in {Undef, Whole(3), Whole(4), Text("2")},
        colorTheme \in {Undef, Text("teal"), Text("pink")},
        enabled \in {Undef, Bool(FALSE), Text("no")},
        showModel \in {Undef, Bool(FALSE), Whole(0)},
        contextValue \in {Undef, Text("tokens"), Text("both")},
        usageThreshold \in {Undef, Whole(50), Text("50")},
        autocompactBuffer \in {Undef, Text("disabled"), Bool(FALSE)} }
ConfigFiles ==
    { ConfigFile(st, NoUserConfig) : st \in {"absent", "unreadable", "garbage", "null", "scalar"} }
    \cup { ConfigFile("object", u) : u \in UserConfigs }

InitConfig ==
    /\ configFile \in ConfigFiles
    /\ cpc = "ready"
    /\ loaded = <<>>
    /\ LIdle
    /\ UIdle
    /\ TIdle
NextConfig == LoadConfig
SpecConfig == InitConfig /\ [][NextConfig]_vars

\* ------------------------------------------------------------ one
\* invocation after another, over the subscription types
Subscriptions ==
    { Undef, Str(<<>>), Str(<<"m", "a", "x">>), Str(<<"M", "A", "X", "_", "2", "0">>),
      Str(<<"P", "r", "o">>), Str(<<"p", "r", "o", "m", "a", "x">>),
      Str(<<"t", "e", "a", "m">>), Str(<<"A", "P", "I">>),
      Str(<<"a", "p", "i", "_", "t", "e", "a", "m">>), Str(<<"f", "r", "e", "e">>),
      Str(<<"E", "d", "u">>) }
PlanSources ==
    { <<CredData(Str(<<"t", "o", "k">>), s, Undef, Undef, Undef), None>> :
        s \in Subscriptions }
PlanOutcomes == { Fulfilled(None), Fulfilled(Some(RespLegacy)) }
NextPlan ==
    \E p \in {1} :
        \/ Start(p, {0})
        \/ ReadCreds(p, PlanSources)
        \/ CallFetch(p, {"returns"}, {"returns"})
        \/ SettleApi(p, PlanOutcomes)
        \/ SettleLimits(p, PlanOutcomes)
        \/ Resume(p)
        \/ WriteOpen(p)
        \/ WriteData(p)
SpecPlan == Init /\ [][NextPlan]_vars

\* ------------------------------------------------------------ claims
Done(p) == pc[p] = "done"
NoRequest(p) == h[p].apiCalls = 0 /\ h[p].limCalls = 0
IsUsageData(d) == d.planName.t = "string" /\ d.planName.s # <<>>

\* C1: getUsage never throws. Whatever the cache, the credentials and the two
\* fetch functions do (resolve, reject, throw), the invocation ends with null
\* or a UsageData, and an exception raised after the cache check ends it with
\* null.
C1_NeverThrows ==
    \A p \in Procs :
        /\ ret[p].st \in {"running", "null", "data"}
        /\ Done(p) => ret[p].st \in {"null", "data"}
        /\ Done(p) /\ h[p].caught => ret[p] = RetNull
        /\ ret[p].st = "data" => ret[p].val # None /\ IsUsageData(ret[p].val[1])
C1_Witness ==
    Done(1) /\ h[1].caught /\ api[1].st = "rejected" /\ lim[1].st = "fulfilled"
        /\ ret[1] = RetNull

StoredTtl(rec) == IF rec.data.apiUnavailable = Bool(TRUE) THEN 15000 ELSE 60000
Fresh(f, n) == f.st = "ok" /\ n - f.rec[1].timestamp < StoredTtl(f.rec[1])
SansCountdown(d) == [d EXCEPT !.fiveHourResetIn = Undef, !.sevenDayResetIn = Undef]

\* C2: the cache slot is used exactly when it is readable and
\* now - timestamp < ttl, ttl being 15000 for a stored apiUnavailable payload
\* and 60000 otherwise; a hit returns the stored payload and reads no
\* credentials, sends no request and writes no cache; otherwise the pipeline
\* runs.
C2_CacheTtl ==
    \A p \in Procs :
        pc[p] # "idle" =>
            /\ h[p].hit <=> Fresh(h[p].seen, now[p])
            /\ h[p].hit =>
                /\ Done(p) /\ ret[p].st = "data"
                /\ SansCountdown(JsonData(ret[p].val[1]))
                        = SansCountdown(h[p].seen.rec[1].data)
                /\ ~h[p].credRead /\ NoRequest(p) /\ h[p].stored = "none"
                /\ file = h[p].seen
            /\ ~h[p].hit /\ pc[p] # "creds" => h[p].credRead
C2_Witness ==
    /\ Done(1) /\ h[1].hit
    /\ h[1].seen.rec[1].data.apiUnavailable = Bool(TRUE)
    /\ now[1] - h[1].seen.rec[1].timestamp = 14999

\* C3: an invocation less than 60 s after one that stored a success payload
\* sends nothing, so the two together made one call to each endpoint; after
\* one that stored a failure payload the next invocation sends nothing before
\* 15 s and, from 15 s on, misses the cache and (with credentials and a plan)
\* calls the endpoints again: fetchApi once, and fetchUsageLimits once unless
\* fetchApi threw.
C3_OneRoundTrip ==
    Done(1) =>
        /\ prev[1].stored = "success" /\ now[1] - prev[1].at < 60000 =>
            /\ h[1].hit /\ NoRequest(1)
            /\ prev[1].apiCalls + h[1].apiCalls = 1
            /\ prev[1].limCalls + h[1].limCalls = 1
        /\ prev[1].stored = "failure" /\ now[1] - prev[1].at < 15000 =>
            h[1].hit /\ NoRequest(1)
        /\ prev[1].stored = "failure" /\ now[1] - prev[1].at >= 15000 =>
            /\ ~h[1].hit /\ h[1].credRead
            /\ cred[1].planName # Null =>
                /\ h[1].apiCalls = 1
                /\ h[1].threw # "api" => h[1].limCalls = 1
C3_Witness ==
    /\ Done(1) /\ prev[1].stored = "failure" /\ now[1] - prev[1].at = 15000
    /\ h[1].apiCalls = 1 /\ h[1].limCalls = 1 /\ h[1].stored = "success"

\* C4: a cache write never shows a half-written file to a concurrent reader:
\* an invocation that reads the file while another is writing it sees the
\* complete previous content or the complete new record.
C4_AtomicReplace ==
    \A p \in Procs : h[p].racing => h[p].seen.st \in {"absent", "ok"}

FailurePayload(planName) ==
    [planName |-> planName, fiveHour |-> Null, sevenDay |-> Null,
     fiveHourResetAt |-> Null, sevenDayResetAt |-> Null, apiUnavailable |-> Bool(TRUE),
     modelQuotas |-> None, maxPlanInfo |-> None, compactionInfo |-> None,
     organizationUuid |-> Undef, fiveHourResetIn |-> Undef, sevenDayResetIn |-> Undef]

\* C5: with credentials and a plan, when both fetches resolve to null the
\* invocation returns the failure payload (apiUnavailable, null windows and
\* reset times, the resolved plan name) and the cache slot then holds that
\* payload stamped with the invocation's clock value, served for 15 s.
C5_FailurePayload ==
    Done(1) /\ api[1] = Fulfilled(None) /\ lim[1] = Fulfilled(None) =>
        /\ cred[1].planName.t = "string"
        /\ ret[1] = RetData(FailurePayload(cred[1].planName))
        /\ file = [st |-> "ok",
                   rec |-> Some([data |-> FailurePayload(cred[1].planName),
                                 timestamp |-> now[1]])]
        /\ readCache(file, now[1] + 14999) = Some(FailurePayload(cred[1].planName))
        /\ readCache(file, now[1] + 15000) = None
C5_Witness ==
    /\ Done(1) /\ api[1] = Fulfilled(None) /\ lim[1] = Fulfilled(None)
    /\ ret[1].st = "data" /\ file.st = "ok" /\ file.rec[1].timestamp = now[1]

Answered(x) ==
    x.st = "fulfilled" /\ x.val \in {Some(RespLegacy), Some(RespEnhanced)}
Failed(x) == x.st = "rejected" \/ x = Fulfilled(None)
BuiltFrom(p, x) ==
    ret[p] = RetData(BuildResult(x.val[1], cred[p].planName, cred[p].organizationUuid,
                                 cred[p].rateLimitTier, now[p]))

\* C6: on a cache miss with credentials and a plan the two requests are
\* independent: getUsage returns only after both have settled, and when one
\* of them fails (resolves to null or rejects) while the other answers, the
\* result is the UsageData built from the answer, not a failure payload or
\* null.
C6_IndependentFetches ==
    \A p \in Procs :
        Done(p) /\ h[p].apiCalls = 1 /\ h[p].limCalls = 1 /\ h[p].threw = "none" =>
            /\ api[p].st # "pending" /\ lim[p].st # "pending"
            /\ Answered(api[p]) /\ Failed(lim[p]) => BuiltFrom(p, api[p])
            /\ Failed(api[p]) /\ Answered(lim[p]) => BuiltFrom(p, lim[p])

Resolved(src) ==
    IF src[1] = None \/ IsFalsy(src[1][1].accessToken) THEN src[2] ELSE src[1]
NotFound(src) == Resolved(src) = None \/ IsFalsy(Resolved(src)[1].accessToken)
Expired(src, n) ==
    /\ ~NotFound(src)
    /\ Resolved(src)[1].expiresAt.t = "number"
    /\ Resolved(src)[1].expiresAt.v <= n
ApiFlagged(src) ==
    includes(toLowerCase(Resolved(src)[1].subscriptionType.s), <<"a", "p", "i">>)

\* C7: once the credentials are read, getUsage returns null and sends no
\* request when none are found or when expiresAt <= now (equal counts as
\* expired); a token with expiresAt > now, or without expiresAt, is accepted
\* (with a plan, the requests are sent).
C7_ExpiredCredentials ==
    \A p \in Procs :
        Done(p) /\ h[p].credRead =>
            /\ NotFound(h[p].credIn) \/ Expired(h[p].credIn, now[p]) =>
                ret[p] = RetNull /\ NoRequest(p)
            /\ ~NotFound(h[p].credIn) /\ ~Expired(h[p].credIn, now[p])
                    /\ ~ApiFlagged(h[p].credIn) =>
                h[p].apiCalls = 1 /\ cred[p].planName # Null
C7_Witness ==
    /\ Done(1) /\ h[1].credRead /\ ~NotFound(h[1].credIn)
    /\ Resolved(h[1].credIn)[1].expiresAt = Ms(now[1])
    /\ ret[1] = RetNull /\ NoRequest(1)

UtilOk(x) == x = Null \/ (x.t = "number" /\ x.v % 10 = 0 /\ x.v >= 0 /\ x.v <= 1000)
Clamped(u, out) ==
    IF u.t # "number" THEN out = Null
    ELSE IF u.v < 0 THEN out = Whole(0)
    ELSE IF u.v > 1000 THEN out = Whole(100)
    ELSE out.t = "number" /\ out.v % 10 = 0 /\ out.v - u.v <= 5 /\ u.v - out.v < 5
DataUtilOk(d) ==
    /\ UtilOk(d.fiveHour) /\ UtilOk(d.sevenDay)
    /\ d.modelQuotas # None =>
        \A i \in 1..Len(d.modelQuotas[1]) : UtilOk(d.modelQuotas[1][i].utilization)

\* C8: every utilization of a UsageData produced by a fetch (fiveHour,
\* sevenDay, each model quota) is null or an integer in [0,100]: below 0
\* gives 0, above 100 gives 100, NaN, Infinity and a missing value give null,
\* 0 stays 0, and a value inside the range gives the nearest integer.
C8_UtilizationClamped ==
    \A p \in Procs :
        /\ ret[p].st = "data" => DataUtilOk(ret[p].val[1])
        /\ file.st = "ok" => DataUtilOk(file.rec[1].data)
        /\ pend[p] # None /\ h[p].merged # None =>
            LET d == pend[p][1]
                m == h[p].merged[1]
            IN /\ DataUtilOk(d)
               /\ m.five_hour # None => Clamped(m.five_hour[1].utilization, d.fiveHour)
               /\ m.five_hour = None => d.fiveHour = Null
               /\ m.seven_day # None => Clamped(m.seven_day[1].utilization, d.sevenDay)
               /\ m.seven_day = None => d.sevenDay = Null
               /\ m.model_quotas # None /\ m.model_quotas[1] # <<>> =>
                    /\ d.modelQuotas # None
                    /\ \A i \in 1..Len(m.model_quotas[1]) :
                        Clamped(m.model_quotas[1][i].utilization,
                                d.modelQuotas[1][i].utilization)
C8_Witness ==
    /\ Done(1) /\ h[1].merged # None /\ h[1].merged[1].five_hour # None
    /\ h[1].merged[1].five_hour[1].utilization = Whole(150)
    /\ ret[1].st = "data" /\ ret[1].val[1].fiveHour = Whole(100)

PreferOpt(a, b) == IF a # None THEN a ELSE b
Prefer(a, b) == IF a.t \notin {"undefined", "null"} THEN a ELSE b

\* C9: when both answers are non-null the merged response takes each field
\* from the legacy answer when it carries the field and from the enhanced
\* answer otherwise; a field both carry with different values is the legacy
\* one's.
C9_MergePrecedence ==
    \A p \in Procs :
        h[p].merged # None /\ api[p].val # None /\ lim[p].val # None =>
            LET m == h[p].merged[1]
                a == api[p].val[1]
                b == lim[p].val[1]
            IN /\ m.five_hour = PreferOpt(a.five_hour, b.five_hour)
               /\ m.seven_day = PreferOpt(a.seven_day, b.seven_day)
               /\ m.model_quotas = PreferOpt(a.model_quotas, b.model_quotas)
               /\ m.max_plan_type = Prefer(a.max_plan_type, b.max_plan_type)
               /\ m.compaction_buffer = Prefer(a.compaction_buffer, b.compaction_buffer)
               /\ m.tokens_per_window = Prefer(a.tokens_per_window, b.tokens_per_window)
C9_Witness ==
    /\ Done(1) /\ h[1].merged # None /\ api[1].val # None /\ lim[1].val # None
    /\ api[1].val[1].compaction_buffer = Whole(0)
    /\ lim[1].val[1].compaction_buffer = Whole(85)
    /\ h[1].merged[1].compaction_buffer = Whole(0)
    /\ api[1].val[1].five_hour # None /\ lim[1].val[1].five_hour # None
    /\ api[1].val[1].five_hour # lim[1].val[1].five_hour
    /\ h[1].merged[1].five_hour = api[1].val[1].five_hour

Rehydrated(x) == IF x.t = "string" THEN DateOf(x.v) ELSE x
DateOrNull(x) == x.t \in {"Date", "null"}

\* C10: a UsageData read back from the cache within its TTL has every date
\* field (fiveHourResetAt, sevenDayResetAt, each model quota's resetsAt) as a
\* date equal to the one written.
C10_DatesRehydrated ==
    \A p \in Procs :
        Done(p) /\ h[p].hit =>
            LET d == ret[p].val[1]
                w == h[p].seen.rec[1].data
            IN /\ DateOrNull(d.fiveHourResetAt)
               /\ d.fiveHourResetAt = Rehydrated(w.fiveHourResetAt)
               /\ DateOrNull(d.sevenDayResetAt)
               /\ d.sevenDayResetAt = Rehydrated(w.sevenDayResetAt)
               /\ d.modelQuotas # None =>
                    \A i \in 1..Len(d.modelQuotas[1]) :
                        /\ DateOrNull(d.modelQuotas[1][i].resetsAt)
                        /\ d.modelQuotas[1][i].resetsAt
                                = Rehydrated(w.modelQuotas[1][i].resetsAt)

Unusable(f) == f.st \in {"partial", "unreadable", "shapeless"}
WriteLost(p) == h[p].stored \in {"refused", "cut"}
Payload(p) ==
    IF h[p].merged = None THEN FailurePayload(cred[p].planName)
    ELSE BuildResult(h[p].merged[1], cred[p].planName, cred[p].organizationUuid,
                     cred[p].rateLimitTier, now[p])

\* C11: an invocation that finds the cache file unreadable, cut short or
\* without a data object takes it for a miss and goes on to the credentials
\* exactly as from an absent file; an invocation whose cache write fails
\* still returns the payload it built (the failure payload or the parsed
\* one), raises nothing, and a write refused before the file is opened
\* leaves the file as it was.
C11_CacheErrorsIgnored ==
    \A p \in {1} :
        /\ (pc[p] # "idle" /\ Unusable(h[p].seen)) =>
               /\ ~h[p].hit
               /\ pc[p] = "creds" \/ h[p].credRead
               /\ readCache(h[p].seen, now[p]) = readCache(NoFile, now[p])
        /\ (Done(p) /\ WriteLost(p)) =>
               /\ ret[p] = RetData(Payload(p))
               /\ ~h[p].caught
               /\ h[p].stored = "refused" => file = h[p].seen
C11_Witness ==
    /\ Done(1) /\ Unusable(h[1].seen) /\ h[1].stored = "refused"
    /\ ret[1].st = "data" /\ h[1].merged # None

Settled(e) == e.status \in {"completed", "error"}
LineRead == transcript.lines[pos + 1]
LoneResultFor(l, id) ==
    /\ l.kind = "entry" /\ l.content.kind = "array" /\ Len(l.content.blocks) = 1
    /\ l.content.blocks[1].type = "tool_result"
    /\ l.content.blocks[1].tool_use_id = id

\* C12: across every line the parse takes, a ToolEntry that has left
\* running keeps its status (never back to running, never from completed to
\* error or back), and an end time once set is never set again.
C12_StatusMonotone ==
    [][\A i \in 1..Len(toolMap) :
          i <= Len(toolMap') =>
              /\ Settled(toolMap[i]) => toolMap'[i].status = toolMap[i].status
              /\ toolMap[i].endTime # Undef => toolMap'[i].endTime = toolMap[i].endTime]_vars

\* C13: a line that holds one tool_result for the id of a ToolEntry that is
\* already completed or error leaves toolMap, agentMap and the todos as they
\* were.
C13_DuplicateResultNoop ==
    [][(/\ tpc = "reading" /\ pos' = pos + 1
        /\ \E i \in 1..Len(toolMap) :
              Settled(toolMap[i]) /\ LoneResultFor(LineRead, toolMap[i].id))
       => /\ toolMap' = toolMap
          /\ agentMap' = agentMap
          /\ latestTodos' = latestTodos]_vars

UseLine(l) ==
    l.kind = "entry" /\ l.content.kind = "array" /\ Len(l.content.blocks) = 1
    /\ l.content.blocks[1].type = "tool_use"
ToolLine(l) == UseLine(l) /\ l.content.blocks[1].name \notin {"Task", "TodoWrite"}
AgentLine(l) == UseLine(l) /\ l.content.blocks[1].name = "Task"
UseIds(ls) == [i \in 1..Len(ls) |-> ls[i].content.blocks[1].id]
Ids(es) == [i \in 1..Len(es) |-> es[i].id]
LastOf(s, n) == [i \in 1..Min(n, Len(s)) |-> s[Len(s) - Min(n, Len(s)) + i]]
LinesTaken == SubSeq(transcript.lines, 1, pos)
ToolsFound == UseIds(SelectSeq(LinesTaken, ToolLine))
AgentsFound == UseIds(SelectSeq(LinesTaken, AgentLine))

\* C14: parseTranscript returns at most 20 tools and 10 agents: of the
\* tool_use blocks with distinct ids that the pass took, the returned tools
\* are the last 20 that made a ToolEntry and the returned agents the last
\* 10 Task blocks, both in file order; while the pass runs the maps hold
\* every entry found so far, so the trim happens once, on return.
C14_BoundedRetention ==
    /\ tpc = "reading" => Ids(toolMap) = ToolsFound /\ Ids(agentMap) = AgentsFound
    /\ tpc = "done" =>
          /\ Len(result.tools) <= 20 /\ Len(result.agents) <= 10
          /\ Ids(result.tools) = LastOf(ToolsFound, 20)
          /\ Ids(result.agents) = LastOf(AgentsFound, 10)
C14_Witness ==
    /\ tpc = "done" /\ ~failed
    /\ Len(ToolsFound) > 20 /\ Len(toolMap) > 20
    /\ Len(result.tools) = 20 /\ result.tools[1].id = ToolsFound[Len(ToolsFound) - 19]

TodoWrites(l) ==
    IF l.kind = "entry" /\ l.content.kind = "array"
    THEN SelectSeq(l.content.blocks,
                   LAMBDA b : /\ b.type = "tool_use" /\ b.id # 0
                              /\ b.name = "TodoWrite" /\ b.input.todos # None)
    ELSE <<>>
RECURSIVE LastTodos(_)
LastTodos(ls) ==
    IF ls = <<>> THEN <<>>
    ELSE LET w == TodoWrites(ls[Len(ls)]) IN
         IF w # <<>> THEN w[Len(w)].input.todos[1]
         ELSE LastTodos(SubSeq(ls, 1, Len(ls) - 1))

\* C15: the todo list is, at every point of the pass and in the returned
\* snapshot, exactly the payload of the last TodoWrite block (a tool_use with
\* an id) taken so far that carried a todos array: same items, same order,
\* nothing of an earlier payload; it is empty when there was none.
C15_TodosReplaced ==
    /\ tpc = "reading" => latestTodos = LastTodos(LinesTaken)
    /\ tpc = "done" => result.todos = LastTodos(LinesTaken)
C15_Witness ==
    /\ tpc = "done" /\ pos = 3
    /\ TodoWrites(transcript.lines[1]) # <<>>
    /\ TodoWrites(transcript.lines[2]) # <<>>
    /\ TodoWrites(transcript.lines[1])[1].input.todos # TodoWrites(transcript.lines[2])[1].input.todos
    /\ TodoWrites(transcript.lines[3]) = <<>>
    /\ result.todos = TodoWrites(transcript.lines[2])[1].input.todos[1]
    /\ result.todos # <<>>

Unparsable(l) == l.kind \in {"blank", "garbage"}
Clean(ls) == SelectSeq(ls, LAMBDA l : ~Unparsable(l))

\* C16: whatever parseTranscript returns after taking some lines of a file
\* is what it returns for the same lines with every blank line and every
\* line that is not JSON removed, wherever they stand (the last line
\* included): such a line is passed over and the lines after it are
\* processed.
C16_MalformedSkipped ==
    tpc = "done" => result = snapshot(parseLines(EmptyAcc, Clean(LinesTaken), wall))
C16_Witness ==
    /\ tpc = "done" /\ ~failed /\ pos = 3
    /\ ToolLine(transcript.lines[1])
    /\ transcript.lines[2] = GarbageLine
    /\ LoneResultFor(transcript.lines[3], 1)
    /\ Len(result.tools) = 1 /\ Settled(result.tools[1])

NoSuchFile == transcript.path = "" \/ ~transcript.exists
LastMessage(um) == IF um = <<>> THEN Undef ELSE Str(um[Len(um)])

\* C17: parseTranscript always returns and never throws; without a path or
\* without the file it returns the empty snapshot; when the read fails
\* after some lines, the locals hold what those lines built and the result
\* is made of them: the last 20 tools, the last 10 agents, the todos, the
\* session start and the last user message.
C17_NeverSurfaces ==
    /\ tpc \in {"idle", "reading", "done"}
    /\ (tpc = "done" /\ NoSuchFile) => result = EmptyResult /\ pos = 0
    /\ (tpc = "done" /\ failed) =>
          LET a == parseLines(EmptyAcc, LinesTaken, wall) IN
          /\ toolMap = a.toolMap /\ agentMap = a.agentMap
          /\ result.tools = LastOf(a.toolMap, 20)
          /\ result.agents = LastOf(a.agentMap, 10)
          /\ result.todos = a.latestTodos
          /\ result.sessionStart = a.result.sessionStart
          /\ result.lastUserMessage = LastMessage(a.userMessages)
C17_Witness ==
    /\ tpc = "done" /\ failed
    /\ pos = 2 /\ Len(transcript.lines) = 3
    /\ Len(result.tools) = 1 /\ result.todos # <<>>

\* the payload's used_percentage, size and token total, once rendered
UsedPct == stdin.context_window.used_percentage
Size == stdin.context_window.context_window_size
Rendered == rpc = "done"
HasUsedPct == Rendered /\ ~IsNullish(UsedPct)
NoUsedPct == Rendered /\ IsNullish(UsedPct)

\* C18 as stated: when the payload carries used_percentage, the context
\* percentage equals that value, whatever the size and the token fields
C18_EqualsUsedPercentage == HasUsedPct => 10 * percent = UsedPct.v
\* C18: when the payload carries used_percentage, the context percentage is
\* that value rounded down to a whole number and capped at 100, whatever the
\* size and the token fields (42 yields 42)
C18_FloorOfUsedPercentage == HasUsedPct => percent = Min(100, UsedPct.v \div 10)
C18_Witness ==
    /\ HasUsedPct
    /\ UsedPct = Whole(42)
    /\ Size = Whole(0)
    /\ stdin.context_window.current_usage.input_tokens = Whole(58000)
    /\ percent = 42

\* C19: without used_percentage the context percentage is
\* floor(100 * (input + cache creation + cache read) / size) capped at 100,
\* is 0 when the size is missing, zero or negative, and lies in 0..100
C19_FloorOfTokenShare ==
    NoUsedPct =>
        /\ percent \in 0..100
        /\ IF IsNullish(Size) \/ Size.v <= 0 THEN percent = 0
           ELSE percent = Min(100, percentOfExact(getTotalTokens(stdin), Size.v))

\* total backend failure: no usage data, no git status, no counts, no duration
BackendsDown ==
    /\ ctx.usageData = None
    /\ ctx.gitStatus = None
    /\ ctx.claudeMdCount = 0 /\ ctx.rulesCount = 0
    /\ ctx.mcpCount = 0 /\ ctx.hooksCount = 0
    /\ IsFalsy(ctx.sessionDuration)
ShowsPercent == includes(line, <<ToString(getContextPercent(stdin)), "%">>)
ShowsModel == includes(line, <<"[">> \o getModelName(stdin).s \o <<"]">>)

\* C20 as stated: under total backend failure the line is not empty and
\* contains the model name and the context percentage
C20_ModelAndPercent ==
    Rendered /\ BackendsDown => line # <<>> /\ ShowsModel /\ ShowsPercent
\* C20: under total backend failure the line is not empty and contains the
\* context percentage, and the model name unless display.showModel is false
C20_PercentAndShownModel ==
    Rendered /\ BackendsDown =>
        /\ line # <<>>
        /\ ShowsPercent
        /\ ctx.config.display.showModel # Bool(FALSE) => ShowsModel
C20_Witness ==
    /\ Rendered /\ BackendsDown
    /\ stdin.model.display_name = Str(<<"Opus">>)
    /\ UsedPct = Whole(42)
    /\ ctx.config.display.showModel = Bool(TRUE)
    /\ includes(line, <<"[", "Opus", "]">>)
    /\ includes(line, <<"42", "%">>)

\* the usage data of the render, and the pieces only the usage parts write
Data == ctx.usageData[1]
UsageShown == ctx.config.display.showUsage # Bool(FALSE)
HasPlan == ctx.usageData # None /\ ~IsFalsy(Data.planName)
UsagePieces ==
    {"usage: <warn>", "<warn> 5h limit", "5h: ", "7d: ", " | 7d: ", "<blue>",
     "/win", "compact@", ": "}
NoUsageSegment == \A i \in 1..Len(line) : line[i] \notin UsagePieces
WarningShown == includes(line, <<"<yellow>", "usage: <warn>", RESET>>)

\* C21 as stated: usage data with a plan name and apiUnavailable set puts the
\* usage warning in the line; no usage data, or no plan name, puts no usage
\* segment in it
C21_WarningOrNothing ==
    Rendered =>
        /\ HasPlan /\ ~IsFalsy(Data.apiUnavailable) => WarningShown
        /\ ~HasPlan => NoUsageSegment
\* C21: unless display.showUsage is false, usage data with a plan name and
\* apiUnavailable set puts the usage warning in the line; no usage data, or
\* no plan name, puts no usage segment in it (no warning, no percentages, no
\* tier, quota or compaction part)
C21_WarningWhenShown ==
    Rendered =>
        /\ UsageShown /\ HasPlan /\ ~IsFalsy(Data.apiUnavailable) => WarningShown
        /\ ~HasPlan => NoUsageSegment
C21_Witness ==
    /\ Rendered
    /\ ctx.usageData = Some(failureResult(PlanMax))
    /\ UsageShown
    /\ WarningShown
    /\ ~includes(line, <<"5h: ">>)

\* the 7-day utilization as the line shows it, and the 5-hour segment
SevenDayShown ==
    \E i \in 1..Len(line) :
        /\ line[i] \in {"7d: ", " | 7d: "}
        /\ SubSeq(line, i + 1, i + Len(formatUsagePercent(Data.sevenDay)))
              = formatUsagePercent(Data.sevenDay)
FiveHourShown == includes(line, <<"5h: ">>) \/ includes(line, <<"<warn> 5h limit">>)

ValidConfig(config) ==
    /\ DOMAIN config = DOMAIN DEFAULT_CONFIG
    /\ DOMAIN config.gitStatus = DOMAIN DEFAULT_CONFIG.gitStatus
    /\ DOMAIN config.display = DOMAIN DEFAULT_CONFIG.display
    /\ config.layout.s \in {<<"default">>, <<"separators">>}
    /\ config.pathLevels.t = "number" /\ config.pathLevels.v \in {10, 20, 30}
    /\ validateColorTheme(config.colorTheme)
    /\ \A f \in DOMAIN config.gitStatus : config.gitStatus[f].t = "boolean"
    /\ \A f \in DOMAIN config.display :
          IF f = "contextValue" THEN config.display[f].s \in {<<"percent">>, <<"tokens">>}
          ELSE IF f = "autocompactBuffer"
          THEN config.display[f].s \in {<<"enabled">>, <<"disabled">>}
          ELSE IF f \in NumberFields THEN config.display[f].t = "number"
          ELSE config.display[f].t = "boolean"
\* the value is the user's when the result would be valid with it, the
\* default otherwise
KeptOrDefault(got, given, default, okWithGiven) ==
    IF okWithGiven THEN got = given ELSE got = default
FieldsKept(config, user) ==
    /\ KeptOrDefault(config.layout, user.layout, DEFAULT_CONFIG.layout,
                     ValidConfig([DEFAULT_CONFIG EXCEPT !.layout = user.layout]))
    /\ KeptOrDefault(config.pathLevels, user.pathLevels, DEFAULT_CONFIG.pathLevels,
                     ValidConfig([DEFAULT_CONFIG EXCEPT !.pathLevels = user.pathLevels]))
    /\ KeptOrDefault(config.colorTheme, user.colorTheme, DEFAULT_CONFIG.colorTheme,
                     ValidConfig([DEFAULT_CONFIG EXCEPT !.colorTheme = user.colorTheme]))
    /\ \A f \in DOMAIN DEFAULT_CONFIG.gitStatus :
          KeptOrDefault(config.gitStatus[f], user.gitStatus[f],
                        DEFAULT_CONFIG.gitStatus[f],
                        ValidConfig([DEFAULT_CONFIG EXCEPT
                                        !.gitStatus[f] = user.gitStatus[f]]))
    /\ \A f \in DOMAIN DEFAULT_CONFIG.display :
          KeptOrDefault(config.display[f], user.display[f],
                        DEFAULT_CONFIG.display[f],
                        ValidConfig([DEFAULT_CONFIG EXCEPT
                                        !.display[f] = user.display[f]]))

\* C23: loadConfig never throws and returns a complete, valid configuration:
\* the defaults for a missing, unreadable or unparsable file, and otherwise,
\* field by field, the user's value when it is valid and the field's default
\* when it is not
C23_ConfigAlwaysValid ==
    cpc = "done" =>
        /\ loaded.st = "fulfilled"
        /\ ValidConfig(loaded.config)
        /\ configFile.st \in {"absent", "unreadable", "garbage", "null"}
              => loaded.config = DEFAULT_CONFIG
        /\ configFile.st \in {"scalar", "object"}
              => FieldsKept(loaded.config, configFile.userConfig)
C23_Witness ==
    /\ cpc = "done"
    /\ configFile.st = "object"
    /\ configFile.userConfig.pathLevels = Whole(4)
    /\ configFile.userConfig.layout = Text("separators")
    /\ configFile.userConfig.display.showModel = Whole(0)
    /\ configFile.userConfig.colorTheme = Text("teal")
    /\ loaded.config.pathLevels = Whole(1)
    /\ loaded.config.layout = Text("separators")
    /\ loaded.config.display.showModel = Bool(TRUE)
    /\ loaded.config.colorTheme = Text("teal")

\* the timestamps of the entries the pass took
Stamps == { LinesTaken[i].timestamp : i \in { j \in 1..pos :
              LinesTaken[j].kind = "entry" /\ LinesTaken[j].timestamp # 0 } }
Earliest(stamps) == CHOOSE t \in stamps : \A u \in stamps : t <= u

\* C24: the session start parseTranscript returns is the earliest timestamp
\* among the timestamped entries, whatever the order of the lines, and is
\* absent when no entry carries a timestamp
C24_SessionStartEarliest ==
    tpc = "done" /\ ~NoSuchFile =>
        IF Stamps = {} THEN result.sessionStart = Undef
        ELSE result.sessionStart = DateOf(Earliest(Stamps))

\* the tool_use blocks with an id and a name that the pass took
UsesTaken ==
    { LinesTaken[i].content.blocks[j] :
        <<i, j>> \in { p \in (1..pos) \X (1..2) :
            /\ LinesTaken[p[1]].kind = "entry"
            /\ LinesTaken[p[1]].content.kind = "array"
            /\ p[2] <= Len(LinesTaken[p[1]].content.blocks)
            /\ LinesTaken[p[1]].content.blocks[p[2]].type = "tool_use"
            /\ LinesTaken[p[1]].content.blocks[p[2]].id # 0
            /\ LinesTaken[p[1]].content.blocks[p[2]].name # "" } }
Reserved == {"Task", "TodoWrite"}
IdSet(es) == { es[i].id : i \in 1..Len(es) }

\* C25: a tool_use block with an id and a name goes to one collection: a
\* Task block to the agents and not to the tools, a TodoWrite block to the
\* todo list and to neither map, any other name to the tools under its id;
\* so no returned tool is named Task or TodoWrite and every returned agent
\* has the id of a Task block
C25_RoutedToOne ==
    tpc \in {"reading", "done"} =>
        /\ IdSet(toolMap) = { b.id : b \in { u \in UsesTaken : u.name \notin Reserved } }
        /\ IdSet(agentMap) = { b.id : b \in { u \in UsesTaken : u.name = "Task" } }
        /\ \A i \in 1..Len(toolMap) : toolMap[i].name \notin Reserved
        /\ latestTodos = LastTodos(LinesTaken)
        /\ tpc = "done" =>
              /\ \A i \in 1..Len(result.tools) : result.tools[i].name \notin Reserved
              /\ IdSet(result.agents)
                    \subseteq { b.id : b \in { u \in UsesTaken : u.name = "Task" } }
C25_Witness ==
    /\ tpc = "done" /\ ~failed
    /\ {"Read", "Task", "TodoWrite"} \subseteq { b.name : b \in UsesTaken }
    /\ Len(result.tools) = 1 /\ result.tools[1].name = "Read"
    /\ Len(result.agents) = 1 /\ result.agents[1].id = 2
    /\ result.todos # <<>>

\* the plan the rules give, the earlier rule winning when two apply
Holds(sub, word) == includes(toLowerCase(sub), word)
ClaimedPlan(sub) ==
    IF Holds(sub, <<"m", "a", "x">>) THEN Str(<<"M", "a", "x">>)
    ELSE IF Holds(sub, <<"p", "r", "o">>) THEN Str(<<"P", "r", "o">>)
    ELSE IF Holds(sub, <<"t", "e", "a", "m">>) THEN Str(<<"T", "e", "a", "m">>)
    ELSE IF Holds(sub, <<"a", "p", "i">>) THEN Null
    ELSE IF sub = <<>> THEN Str(<<"P", "r", "o">>)
    ELSE Str(<<UpperChar(sub[1])>> \o SubSeq(sub, 2, Len(sub)))
SubscriptionRead == Coalesce(h[1].credIn[1][1].subscriptionType, Str(<<>>)).s

\* C26: the plan name comes from the subscription type by case-insensitive
\* substring matching, in this order: max gives Max, pro gives Pro, team
\* gives Team, api gives no plan and getUsage returns null; an empty type
\* with an OAuth token gives Pro; any other type is shown with its first
\* letter in upper case
C26_PlanFromSubscription ==
    h[1].credRead =>
        IF ClaimedPlan(SubscriptionRead) = Null
        THEN pc[1] = "done" /\ ret[1] = RetNull
        ELSE cred[1].planName = ClaimedPlan(SubscriptionRead)
C26_Witness ==
    /\ h[1].credRead
    /\ SubscriptionRead = <<"M", "A", "X", "_", "2", "0">>
    /\ cred[1].planName = Str(<<"M", "a", "x">>)
    /\ ret[1].st = "data" /\ ret[1].val[1].planName = Str(<<"M", "a", "x">>)

\* the countdowns a cache hit has to return: computed from the reset time
\* the record holds and the clock of this invocation
StoredAt(p) == h[p].seen.rec[1].data
FreshCountdown(resetAt, n) ==
    IF IsFalsy(resetAt) THEN Undef ELSE formatTimeToReset(NewDate(resetAt), n)
HitIsFresh(p) ==
    /\ ret[p].val[1].fiveHourResetIn = FreshCountdown(StoredAt(p).fiveHourResetAt, now[p])
    /\ ret[p].val[1].sevenDayResetIn = FreshCountdown(StoredAt(p).sevenDayResetAt, now[p])
NoCountdownStored ==
    file.st = "ok" =>
        /\ file.rec[1].data.fiveHourResetIn = Undef
        /\ file.rec[1].data.sevenDayResetIn = Undef

\* C27: reset countdowns are never cached: a cache hit returns countdowns
\* computed from the stored reset time and the clock of the invocation, and
\* the record in the cache file carries no countdown string
C27_CountdownsNeverCached ==
    /\ \A p \in Procs : (pc[p] = "done" /\ h[p].hit) => HitIsFresh(p)
    /\ NoCountdownStored

\* what the record holds is the countdown of the moment it was written
StoredAtWriteTime ==
    file.st = "ok" =>
        LET cache == file.rec[1] IN
        /\ cache.data.fiveHourResetIn =
               FreshCountdown(cache.data.fiveHourResetAt, cache.timestamp)
        /\ cache.data.sevenDayResetIn =
               FreshCountdown(cache.data.sevenDayResetAt, cache.timestamp)

\* C27 (amended): a cache hit returns countdowns computed from the stored
\* reset time and the clock of the invocation, none when the stored reset
\* time is null; the record in the cache file does carry the countdowns of
\* the moment it was written, and a hit never returns them
C27_HitCountdownsFresh ==
    /\ \A p \in Procs : (pc[p] = "done" /\ h[p].hit) => HitIsFresh(p)
    /\ StoredAtWriteTime
C27_Witness ==
    /\ pc[1] = "done" /\ h[1].hit
    /\ now[1] > h[1].seen.rec[1].timestamp
    /\ StoredAt(1).fiveHourResetIn.t = "string"
    /\ ret[1].val[1].fiveHourResetIn.t = "string"
    /\ ret[1].val[1].fiveHourResetIn # StoredAt(1).fiveHourResetIn

\* the user entries that say something: the text, collapsed, is not empty
\* and does not open with one of the two markers
Markers == {"[Request interrupted", "[Request cancelled"}
UserText(l) ==
    Normalize(IF l.content.kind = "string" THEN l.content.text
              ELSE JoinText(l.content.blocks))
Qualifies(l) ==
    /\ l.kind = "entry" /\ l.type = "user"
    /\ UserText(l) # <<>>
    /\ Head(UserText(l)) \notin Markers
Informative == SelectSeq(LinesTaken, Qualifies)

\* C28: lastUserMessage is the whitespace-collapsed text of the last user
\* entry in file order whose text is not empty and does not start with an
\* interruption or cancellation marker; a later empty or marker entry
\* leaves it in place, and the field is absent when no user entry qualifies
C28_LastInformativeMessage ==
    tpc = "done" =>
        result.lastUserMessage =
            IF Informative = <<>> THEN Undef
            ELSE Str(UserText(Informative[Len(Informative)]))
C28_Witness ==
    /\ tpc = "done" /\ ~failed /\ pos = 3
    /\ transcript.lines[1] = EntryLine("user", 1, StringContent(<<" ", "hi", "\n", "\n", "yo", " ">>))
    /\ transcript.lines[2] = OneBlock("user", 0, TextBlock(<<"[Request interrupted", " ", "by user]">>))
    /\ transcript.lines[3] = OneBlock("user", 2, ResultBlock(1, FALSE))
    /\ result.lastUserMessage = Str(<<"hi", " ", "yo">>)

\* the invocation went down one of the two paths that call writeCache
BothFailed(p) ==
    /\ api[p] = Fulfilled(None) /\ lim[p] = Fulfilled(None)
    /\ ret[p] = RetData(failureResult(cred[p].planName))
Parsed(p) ==
    /\ h[p].merged # None /\ ~h[p].caught
    /\ ret[p].st = "data" /\ IsFalsy(ret[p].val[1].apiUnavailable)
Wrote(p) == h[p].stored \in {"failure", "success"}

\* C29: getUsage writes the cache file on two paths only, the payload for
\* both endpoints failing and the parsed success payload; an invocation that
\* returns null or hits the cache leaves the file as it found it, so a null
\* outcome is not cached and an invocation after it misses the cache again
C29_WritesOnTwoPaths ==
    /\ pc[1] \in {"creds", "call", "await", "write"} => file = h[1].seen
    /\ Done(1) =>
          /\ h[1].stored \in {"none", "failure", "success"}
          /\ Wrote(1) <=> file # h[1].seen
          /\ Wrote(1) <=> (BothFailed(1) \/ Parsed(1))
          /\ Wrote(1) => file = FileOf(ret[1].val[1], now[1])
          /\ h[1].stored = "failure" <=> BothFailed(1)
          /\ (ret[1] = RetNull \/ h[1].hit) => ~Wrote(1) /\ file = h[1].seen
          /\ ret[1] = RetNull =>
                /\ ~h[1].hit /\ h[1].credRead
                /\ \A n \in Nows : n >= now[1] => readCache(file, n) = None
C29_Witness ==
    /\ Done(1) /\ ret[1] = RetNull /\ h[1].caught
    /\ file.st = "ok" /\ file = h[1].seen
    /\ prev[1].stored = "success"

\* no invocation is inside writeCache
NoWriter == \A p \in Procs : pc[p] \notin {"write", "flush"}
SawPartial(p) == h[p].racing /\ h[p].seen.st = "partial"
PartialIsMiss ==
    \A p \in Procs :
        /\ SawPartial(p) => ~h[p].hit /\ (Done(p) => h[p].credRead)
        /\ h[p].hit => h[p].seen.st = "ok"

\* C30: an invocation that reads the cache file while another is overwriting
\* it (the file empty or cut short) takes it for a miss and goes on to
\* fetch, never returning data made of partial content; and once no writer
\* is left at work the file holds one writer's complete record
C30_PartialReadIsMiss ==
    /\ PartialIsMiss
    /\ (NoWriter /\ file.st # "absent") => file.st = "ok"

====
